---- MODULE Spec2Model ----
(***************************************************************************)
(* Model of the Unreal Engine MCP servers (Python/unreal_mcp_server_*.py)  *)
(* and their helpers: the UnrealConnection socket client, the global       *)
(* connection handle, and the tools that issue commands through them.      *)
(*                                                                         *)
(* Text is modelled as sequences of one-character strings, bytes as        *)
(* sequences of byte names: an ASCII byte is named by its character, the   *)
(* two bytes of U+00E9 are "C3" and "A9".  JSON values are records         *)
(* [t |-> tag, v |-> payload]; a Python dict is the sequence of its        *)
(* <<key, value>> items in insertion order.                                *)
(***************************************************************************)
EXTENDS Integers, Sequences, FiniteSets, TLC

(***************************************************************************)
(* Python values                                                           *)
(***************************************************************************)
JStr(s) == [t |-> "str", v |-> s]
JNum(digits) == [t |-> "num", v |-> digits]
JBool(b) == [t |-> "bool", v |-> IF b THEN <<"true">> ELSE <<"false">>]
JNull == [t |-> "null", v |-> <<>>]
JArr(items) == [t |-> "arr", v |-> items]
JObj(items) == [t |-> "obj", v |-> items]

PyInt(n) == [t |-> "int", v |-> <<n>>]

PyNone == JNull
PyTrue == JBool(TRUE)
PyFalse == JBool(FALSE)

\* bool(x) for the values the tools test with "if x" / "x or y"
Truthy(x) ==
    CASE x.t = "null" -> FALSE
      [] x.t = "bool" -> x = PyTrue
      [] x.t = "num" -> x.v # <<"0">>
      [] x.t = "int" -> x.v # <<0>>
      [] OTHER -> Len(x.v) > 0

\* x or y
PyOr(x, y) == IF Truthy(x) THEN x ELSE y

HasKey(d, k) == \E i \in 1..Len(d.v) : d.v[i][1] = k

\* d.get(k, default)
DictGet(d, k, default) ==
    IF HasKey(d, k)
    THEN LET i == CHOOSE j \in 1..Len(d.v) : d.v[j][1] = k IN d.v[i][2]
    ELSE default

\* d[k] = x
DictSet(d, k, x) ==
    IF HasKey(d, k)
    THEN JObj([i \in 1..Len(d.v) |-> IF d.v[i][1] = k THEN <<k, x>> ELSE d.v[i]])
    ELSE JObj(Append(d.v, <<k, x>>))

(***************************************************************************)
(* str.encode('utf-8') and bytes.decode('utf-8')                           *)
(***************************************************************************)
NonAscii == "U+E9"
LeadByte == "C3"
ContByte == "A9"

RECURSIVE EncodeUtf8(_)
EncodeUtf8(s) ==
    IF s = <<>> THEN <<>>
    ELSE (IF Head(s) = NonAscii THEN <<LeadByte, ContByte>> ELSE <<Head(s)>>)
         \o EncodeUtf8(Tail(s))

NotContByte(b) == b # ContByte

\* a lead byte must be followed by a continuation byte and a continuation
\* byte must follow a lead byte; [ok |-> FALSE] stands for UnicodeDecodeError
DecodeUtf8(b) ==
    LET wellFormed ==
            \A i \in 1..Len(b) :
                /\ b[i] = LeadByte => (i < Len(b) /\ b[i + 1] = ContByte)
                /\ b[i] = ContByte => (i > 1 /\ b[i - 1] = LeadByte)
        firsts == SelectSeq(b, NotContByte)
    IN  IF wellFormed
        THEN [ok |-> TRUE,
              val |-> [i \in 1..Len(firsts) |->
                          IF firsts[i] = LeadByte THEN NonAscii ELSE firsts[i]]]
        ELSE [ok |-> FALSE, val |-> <<>>]

(***************************************************************************)
(* json.dumps (default separators, ensure_ascii=True)                      *)
(***************************************************************************)
RECURSIVE EscapeChars(_)
EscapeChars(s) ==
    IF s = <<>> THEN <<>>
    ELSE (CASE Head(s) = NonAscii -> <<"\\", "u", "0", "0", "e", "9">>
            [] Head(s) = "\"" -> <<"\\", "\"">>
            [] Head(s) = "\\" -> <<"\\", "\\">>
            [] OTHER -> <<Head(s)>>)
         \o EscapeChars(Tail(s))

DumpsStr(s) == <<"\"">> \o EscapeChars(s) \o <<"\"">>

RECURSIVE Dumps(_)
RECURSIVE DumpsItems(_, _)
RECURSIVE DumpsElems(_, _)
Dumps(x) ==
    CASE x.t = "str" -> DumpsStr(x.v)
      [] x.t = "num" -> x.v
      [] x.t = "bool" -> IF x = PyTrue THEN <<"t", "r", "u", "e">>
                         ELSE <<"f", "a", "l", "s", "e">>
      [] x.t = "null" -> <<"n", "u", "l", "l">>
      [] x.t = "arr" -> <<"[">> \o DumpsElems(x.v, 1) \o <<"]">>
      [] x.t = "obj" -> <<"{">> \o DumpsItems(x.v, 1) \o <<"}">>

DumpsItems(items, i) ==
    IF i > Len(items) THEN <<>>
    ELSE (IF i > 1 THEN <<",", " ">> ELSE <<>>)
         \o DumpsStr(items[i][1]) \o <<":", " ">> \o Dumps(items[i][2])
         \o DumpsItems(items, i + 1)

DumpsElems(items, i) ==
    IF i > Len(items) THEN <<>>
    ELSE (IF i > 1 THEN <<",", " ">> ELSE <<>>)
         \o Dumps(items[i]) \o DumpsElems(items, i + 1)

(***************************************************************************)
(* json.loads: [ok |-> FALSE] stands for json.JSONDecodeError              *)
(***************************************************************************)
Whitespace == {" ", "\n"}
Digits == {"0", "1", "2", "9"}
ParseFail == [ok |-> FALSE, val |-> JNull, pos |-> 0]
ParseOk(x, p) == [ok |-> TRUE, val |-> x, pos |-> p]

RECURSIVE SkipWs(_, _)
SkipWs(s, i) == IF i <= Len(s) /\ s[i] \in Whitespace THEN SkipWs(s, i + 1) ELSE i

Literal(s, i, word) ==
    i + Len(word) - 1 <= Len(s) /\ SubSeq(s, i, i + Len(word) - 1) = word

\* the characters of a string, from the one after its opening quote
RECURSIVE ParseChars(_, _, _)
ParseChars(s, i, acc) ==
    IF i > Len(s) THEN ParseFail
    ELSE IF s[i] = "\"" THEN ParseOk(acc, i + 1)
    ELSE IF s[i] = "\n" THEN ParseFail
    ELSE IF s[i] = "\\"
         THEN IF i + 1 <= Len(s) /\ s[i + 1] \in {"\"", "\\"}
              THEN ParseChars(s, i + 2, Append(acc, s[i + 1]))
              ELSE IF Literal(s, i + 1, <<"u", "0", "0", "e", "9">>)
              THEN ParseChars(s, i + 6, Append(acc, NonAscii))
              ELSE ParseFail
    ELSE ParseChars(s, i + 1, Append(acc, s[i]))

RECURSIVE ParseDigits(_, _, _)
ParseDigits(s, i, acc) ==
    IF i <= Len(s) /\ s[i] \in Digits
    THEN ParseDigits(s, i + 1, Append(acc, s[i]))
    ELSE ParseOk(JNum(acc), i)

\* the later of two items with one key wins, at the place of the first
PutItem(items, k, x) == DictSet(JObj(items), k, x).v

RECURSIVE ParseValue(_, _)
RECURSIVE ParseMembers(_, _, _)
RECURSIVE ParseElements(_, _, _)
ParseValue(s, i) ==
    IF i > Len(s) THEN ParseFail
    ELSE CASE s[i] = "\"" ->
                LET r == ParseChars(s, i + 1, <<>>)
                IN  IF r.ok THEN ParseOk(JStr(r.val), r.pos) ELSE ParseFail
           [] s[i] = "{" ->
                LET j == SkipWs(s, i + 1)
                IN  IF j <= Len(s) /\ s[j] = "}" THEN ParseOk(JObj(<<>>), j + 1)
                    ELSE ParseMembers(s, j, <<>>)
           [] s[i] = "[" ->
                LET j == SkipWs(s, i + 1)
                IN  IF j <= Len(s) /\ s[j] = "]" THEN ParseOk(JArr(<<>>), j + 1)
                    ELSE ParseElements(s, j, <<>>)
           [] s[i] = "0" -> ParseOk(JNum(<<"0">>), i + 1)
           [] s[i] \in Digits \ {"0"} -> ParseDigits(s, i, <<>>)
           [] Literal(s, i, <<"t", "r", "u", "e">>) -> ParseOk(PyTrue, i + 4)
           [] Literal(s, i, <<"f", "a", "l", "s", "e">>) -> ParseOk(PyFalse, i + 5)
           [] Literal(s, i, <<"n", "u", "l", "l">>) -> ParseOk(JNull, i + 4)
           [] OTHER -> ParseFail

\* i is at the opening quote of the next key
ParseMembers(s, i, acc) ==
    IF i > Len(s) \/ s[i] # "\"" THEN ParseFail
    ELSE LET k == ParseChars(s, i + 1, <<>>)
         IN  IF ~k.ok THEN ParseFail
             ELSE LET c == SkipWs(s, k.pos)
                  IN  IF c > Len(s) \/ s[c] # ":" THEN ParseFail
                      ELSE LET x == ParseValue(s, SkipWs(s, c + 1))
                           IN  IF ~x.ok THEN ParseFail
                               ELSE LET e == SkipWs(s, x.pos)
                                        items == PutItem(acc, k.val, x.val)
                                    IN  IF e > Len(s) THEN ParseFail
                                        ELSE IF s[e] = "}" THEN ParseOk(JObj(items), e + 1)
                                        ELSE IF s[e] = ","
                                             THEN ParseMembers(s, SkipWs(s, e + 1), items)
                                        ELSE ParseFail

ParseElements(s, i, acc) ==
    LET x == ParseValue(s, i)
    IN  IF ~x.ok THEN ParseFail
        ELSE LET e == SkipWs(s, x.pos)
                 items == Append(acc, x.val)
             IN  IF e > Len(s) THEN ParseFail
                 ELSE IF s[e] = "]" THEN ParseOk(JArr(items), e + 1)
                 ELSE IF s[e] = ","
                      THEN ParseElements(s, SkipWs(s, e + 1), items)
                 ELSE ParseFail

Loads(s) ==
    LET r == ParseValue(s, SkipWs(s, 1))
    IN  IF r.ok /\ SkipWs(s, r.pos) > Len(s) THEN r ELSE ParseFail

(***************************************************************************)
(* Strings of the program                                                  *)
(***************************************************************************)
S_type == <<"t", "y", "p", "e">>
S_params == <<"p", "a", "r", "a", "m", "s">>
S_status == <<"s", "t", "a", "t", "u", "s">>
S_error == <<"e", "r", "r", "o", "r">>
S_message == <<"m", "e", "s", "s", "a", "g", "e">>
S_success == <<"s", "u", "c", "c", "e", "s", "s">>
S_result == <<"r", "e", "s", "u", "l", "t">>
S_pattern == <<"p", "a", "t", "t", "e", "r", "n">>
S_name == <<"n", "a", "m", "e">>
S_actors == <<"a", "c", "t", "o", "r", "s">>
S_find_actors_by_name == <<"f", "i", "n", "d", "_", "a", "c", "t", "o", "r", "s", "_", "b", "y", "_", "n", "a", "m", "e">>
S_spawn_actor == <<"s", "p", "a", "w", "n", "_", "a", "c", "t", "o", "r">>

\* str(e) of an exception, and the other message texts, are kept whole
Text(msg) == JStr(<<msg>>)

(***************************************************************************)
(* What the Unreal side may write back (the plugin is outside this tree)   *)
(***************************************************************************)
W_success == <<"{", "\"", "s", "t", "a", "t", "u", "s", "\"", ":", "\"", "s", "u", "c", "c", "e", "s", "s", "\"", "}">>
W_error == <<"{", "\"", "s", "t", "a", "t", "u", "s", "\"", ":", "\"", "e", "r", "r", "o", "r", "\"", ",", "\"", "e", "r", "r", "o", "r", "\"", ":", "\"", "e", "\"", "}">>
W_message == <<"{", "\"", "s", "t", "a", "t", "u", "s", "\"", ":", "\"", "e", "r", "r", "o", "r", "\"", ",", "\"", "m", "e", "s", "s", "a", "g", "e", "\"", ":", "\"", "m", "\"", "}">>
W_false == <<"{", "\"", "s", "u", "c", "c", "e", "s", "s", "\"", ":", "f", "a", "l", "s", "e", ",", "\"", "m", "e", "s", "s", "a", "g", "e", "\"", ":", "\"", "m", "\"", "}">>
W_utf8 == <<"{", "\"", "r", "e", "s", "u", "l", "t", "\"", ":", "\"", "C3", "A9", "\"", "}">>
W_array == <<"[", "1", "]">>
W_number == <<"1", "2">>
W_garbage == <<"}">>

Wires == {W_success, W_error, W_message, W_false, W_utf8, W_array, W_number, W_garbage}

(***************************************************************************)
(* Bounds of the model                                                     *)
(***************************************************************************)
\* tool calls in one run of the server
MaxCalls == 2

(***************************************************************************)
(* UnrealConnection.send_command and receive_full_response, as functions   *)
(* of what the socket delivers                                             *)
(***************************************************************************)
Raise(msg) == [kind |-> "raise", bytes |-> <<>>, text |-> msg]
ReturnData(data) == [kind |-> "data", bytes |-> data, text |-> ""]
ReturnNothing == [kind |-> "none", bytes |-> <<>>, text |-> ""]
Continue == [kind |-> "continue", bytes |-> <<>>, text |-> ""]

\* json.loads(data.decode('utf-8')) does not raise
IsCompleteJson(data) ==
    LET d == DecodeUtf8(data) IN d.ok /\ Loads(d.val).ok

\* variant of AfterChunk: any chunk that decodes ends the loop
AfterChunk_first(data) ==
    IF ~DecodeUtf8(data).ok THEN Raise("'utf-8' codec can't decode byte")
    ELSE ReturnData(data)

\* one turn of the loop after recv returned a non-empty chunk; data is
\* b''.join(chunks) with that chunk appended.  decode is outside the inner
\* try, so its error leaves the loop
AfterChunk(data) ==
    IF ~DecodeUtf8(data).ok THEN Raise("'utf-8' codec can't decode byte")
    ELSE IF IsCompleteJson(data) THEN ReturnData(data)
    ELSE Continue

\* recv returned b'': the loop is left by break and the function ends
\* without a return statement
AfterEof(data) ==
    IF data = <<>> THEN Raise("Connection closed before receiving data")
    ELSE ReturnNothing

\* socket.timeout
AfterTimeout(data) ==
    IF data # <<>> /\ IsCompleteJson(data) THEN ReturnData(data)
    ELSE Raise("Timeout receiving Unreal response")

\* variant of CommandObj: params is passed on as given
CommandObj_raw(cmd, prm) ==
    JObj(<< <<S_type, JStr(cmd)>>, <<S_params, prm>> >>)

\* {"type": command, "params": params or {}}
CommandObj(cmd, prm) ==
    JObj(<< <<S_type, JStr(cmd)>>, <<S_params, PyOr(prm, JObj(<<>>))>> >>)

\* json.dumps(command_obj).encode('utf-8')
CommandBytes(cmd, prm) == EncodeUtf8(Dumps(CommandObj(cmd, prm)))

\* variant of ErrorResult: the except branch returns nothing
ErrorResult_none(msg) == PyNone

\* {"status": "error", "error": str(e)}
ErrorResult(msg) ==
    JObj(<< <<S_status, JStr(S_error)>>, <<S_error, Text(msg)>> >>)

\* response.get("error") or response.get("message", "Unknown Unreal error")
ErrorMessage(response) ==
    PyOr(DictGet(response, S_error, PyNone),
         DictGet(response, S_message, Text("Unknown Unreal error")))

\* "Handle error responses"
HandleErrorResponse(response) ==
    IF DictGet(response, S_status, PyNone) = JStr(S_error)
    THEN IF HasKey(response, S_error) THEN response
         ELSE DictSet(response, S_error, ErrorMessage(response))
    ELSE IF DictGet(response, S_success, PyNone) = PyFalse
         THEN JObj(<< <<S_status, JStr(S_error)>>, <<S_error, ErrorMessage(response)>> >>)
         ELSE response

\* str(e) of the exception that lines 177-194 raise once
\* receive_full_response has ended with r; "" when they raise nothing
CommandException(r) ==
    CASE r.kind = "raise" -> r.text
      [] r.kind = "none" -> "'NoneType' object has no attribute 'decode'"
      [] r.kind = "data" ->
            LET d == DecodeUtf8(r.bytes)
                x == Loads(d.val)
            IN  IF ~d.ok THEN "'utf-8' codec can't decode byte"
                ELSE IF ~x.ok THEN "Expecting value"
                ELSE IF x.val.t # "obj" THEN "object has no attribute 'get'"
                ELSE ""

\* what send_command returns once receive_full_response has ended with r
CommandResult(r) ==
    IF CommandException(r) # "" THEN ErrorResult(CommandException(r))
    ELSE HandleErrorResponse(Loads(DecodeUtf8(r.bytes).val).val)

(***************************************************************************)
(* State                                                                   *)
(***************************************************************************)
VARIABLES
    pc,                 \* where the server process is
    unreal_connection,  \* the global handle: TRUE when it holds an UnrealConnection
    socket,             \* self.socket of that object
    connected,          \* self.connected
    command, params,    \* arguments of the send_command call in progress
    sent,               \* bytes given to sendall in that call
    wire,               \* bytes the Unreal side answers with
    chunks,             \* b''.join(chunks) in receive_full_response
    response_data,      \* how receive_full_response ended
    ret,                \* what send_command returned
    outcome,            \* how it ended
    entry,              \* self.socket when the call was entered
    trace,              \* socket operations of the call, in order
    unused,             \* openers of connections closed before any send
    guc,                \* the last get_unreal_connection call
    tool,               \* the tool call in progress, or the last one
    spawned,            \* len(actors)
    cmdFailed,          \* a send_command of this tool call ended in a socket failure
    toolRet,            \* what the tool returned
    calls,              \* tool calls made so far
    args,               \* arguments of the tool call in progress (ToolSpec)
    locals,             \* its local variables
    log                 \* the commands it has passed to send_command, in order

connVars == <<unreal_connection, socket, connected>>
cmdVars == <<command, params, sent, wire, chunks, response_data, ret, outcome, entry, trace>>
toolVars == <<tool, spawned, cmdFailed, toolRet, args, locals, log>>
vars == <<pc, connVars, cmdVars, unused, guc, toolVars, calls>>

Unset == [t |-> "unset", v |-> <<>>]

\* no tool call has begun, or the call has no local variables yet
NoArgs == [none |-> TRUE]
NoLocals == [none |-> TRUE]

\* self.socket = None
NoSocket == [st |-> "None", by |-> "", fresh |-> FALSE, sent |-> 0]

\* socket.socket(...) followed by connect((UNREAL_HOST, UNREAL_PORT)): when
\* connect raises, the except branch leaves the new object in self.socket
NewSocket(ok, opener) ==
    [st |-> IF ok THEN "open" ELSE "created", by |-> opener,
     fresh |-> (opener = "send_command"), sent |-> 0]

\* a socket is "new" in the send_command call that created it and "old" after
Which(sock) == IF sock.fresh THEN "new" ELSE "old"
Aged(sock) == IF sock.st = "None" THEN sock ELSE [sock EXCEPT !.fresh = FALSE]
CloseEvents(sock) == IF sock.st = "None" THEN <<>> ELSE << <<"close", Which(sock)>> >>

\* the opener of sock, when closing it ends a connection that sent nothing
Unused(sock) == IF sock.st = "open" /\ sock.sent = 0 THEN {sock.by} ELSE {}

ResetCommand ==
    /\ command' = <<>> /\ params' = PyNone /\ sent' = <<>> /\ wire' = <<>>
    /\ chunks' = <<>> /\ response_data' = Continue /\ ret' = Unset /\ outcome' = "unset"
    /\ entry' = NoSocket /\ trace' = <<>>

\* send_command(cmd, prm) is entered, after the caller's own steps
Enter(cmd, prm) ==
    /\ command' = cmd /\ params' = prm /\ sent' = <<>> /\ wire' = <<>>
    /\ chunks' = <<>> /\ response_data' = Continue /\ ret' = Unset /\ outcome' = "unset"
    /\ entry' = socket' /\ trace' = <<>>
    /\ pc' = "connect"

Init ==
    /\ pc = "start"
    /\ unreal_connection = FALSE /\ socket = NoSocket /\ connected = FALSE
    /\ command = <<>> /\ params = PyNone /\ sent = <<>> /\ wire = <<>>
    /\ chunks = <<>> /\ response_data = Continue /\ ret = Unset /\ outcome = "unset"
    /\ entry = NoSocket /\ trace = <<>>
    /\ unused = {}
    /\ guc = [had |-> FALSE, created |-> FALSE, attempts |-> 0, ok |-> FALSE,
              returned |-> FALSE]
    /\ tool = ""
    /\ spawned = 0 /\ cmdFailed = FALSE /\ toolRet = Unset
    /\ calls = 0
    /\ args = NoArgs /\ locals = NoLocals /\ log = <<>>

(***************************************************************************)
(* get_unreal_connection and server_lifespan                               *)
(***************************************************************************)
\* variant of HandleAfterFailure: the failed object is kept
HandleAfterFailure_kept == TRUE

\* the handle after a connect that failed: "_unreal_connection = None"
HandleAfterFailure == FALSE

\* ok: the outcome of connect(), should it be attempted
GetUnrealConnection(ok) ==
    IF unreal_connection
    THEN /\ guc' = [had |-> TRUE, created |-> FALSE, attempts |-> 0, ok |-> FALSE,
                     returned |-> TRUE]
         /\ UNCHANGED <<connVars, unused>>
    ELSE LET kept == ok \/ HandleAfterFailure
         IN  /\ guc' = [had |-> FALSE, created |-> TRUE, attempts |-> 1, ok |-> ok,
                         returned |-> kept]
             /\ unreal_connection' = kept
             /\ socket' = IF kept THEN NewSocket(ok, "get_unreal_connection") ELSE NoSocket
             /\ connected' = ok
             /\ UNCHANGED unused

\* server_lifespan up to its yield
Startup(ok) ==
    /\ pc = "start"
    /\ GetUnrealConnection(ok)
    /\ pc' = "idle"
    /\ UNCHANGED <<cmdVars, toolVars, calls>>

\* server_lifespan after its yield, with UnrealConnection.disconnect
Shutdown ==
    /\ pc = "idle"
    /\ pc' = "stopped"
    /\ unused' = IF unreal_connection THEN unused \cup Unused(socket) ELSE unused
    /\ unreal_connection' = FALSE /\ socket' = NoSocket /\ connected' = FALSE
    /\ UNCHANGED <<cmdVars, guc, toolVars, calls>>

(***************************************************************************)
(* UnrealConnection.send_command, one socket operation at a time           *)
(***************************************************************************)
\* variant of Reconnect: a socket that is still connected is used again
Reconnect_keep == ~connected

\* "Always reconnect for each command"
Reconnect == TRUE

\* the leftover socket is closed, then connect() makes a new one
SendCommandConnect(ok) ==
    /\ pc = "connect"
    /\ IF Reconnect
       THEN /\ unused' = unused \cup Unused(socket)
            /\ socket' = NewSocket(ok, "send_command")
            /\ connected' = ok
            /\ trace' = CloseEvents(Aged(socket))
                            \o << <<IF ok THEN "open" ELSE "refused", "new">> >>
            /\ IF ok
               THEN pc' = "send" /\ UNCHANGED <<ret, outcome>>
               ELSE pc' = "returned" /\ ret' = PyNone /\ outcome' = "noconnect"
       ELSE /\ socket' = Aged(socket)
            /\ pc' = "send"
            /\ UNCHANGED <<unused, connected, trace, ret, outcome>>
    /\ UNCHANGED <<unreal_connection, command, params, sent, wire, chunks, response_data,
                   entry, guc, toolVars, calls>>

\* variant of Finish: the socket is not closed
Finish_leak(sock, events, result, how) ==
    /\ unused' = unused
    /\ socket' = sock
    /\ connected' = connected
    /\ trace' = trace \o events
    /\ ret' = result
    /\ outcome' = how
    /\ pc' = "returned"

\* the close of the socket and the return, on both the normal path and the
\* except path; sock is self.socket, events what this step did before
Finish(sock, events, result, how) ==
    /\ unused' = unused \cup Unused(sock)
    /\ socket' = NoSocket
    /\ connected' = FALSE
    /\ trace' = trace \o events \o CloseEvents(sock)
    /\ ret' = result
    /\ outcome' = how
    /\ pc' = "returned"

Used(sock) == [sock EXCEPT !.sent = @ + 1]

\* sendall(command_json.encode('utf-8')) returns; w is what Unreal will answer
SendAll(w) ==
    /\ pc = "send"
    /\ sent' = CommandBytes(command, params)
    /\ socket' = Used(socket)
    /\ trace' = Append(trace, <<"sendall", Which(socket)>>)
    /\ wire' = w
    /\ pc' = "recv"
    /\ UNCHANGED <<unreal_connection, connected, unused, command, params, chunks,
                   response_data, ret, outcome, entry, guc, toolVars, calls>>

\* sendall raises
SendAllFails ==
    /\ pc = "send"
    /\ sent' = CommandBytes(command, params)
    /\ Finish(Used(socket), << <<"sendall", Which(socket)>> >>,
              ErrorResult("[Errno 32] Broken pipe"), "exception")
    /\ UNCHANGED <<unreal_connection, command, params, wire, chunks, response_data,
                   entry, guc, toolVars, calls>>

\* one recv has been issued on this socket since sendall unless the trace
\* already ends with it (repeated recv calls are one entry of the trace)
RecvEvents == IF trace[Len(trace)][1] = "recv" THEN <<>> ELSE << <<"recv", Which(socket)>> >>

\* the step that follows one recv, given what receive_full_response made of it
AfterRecv(data, r) ==
    /\ chunks' = data
    /\ response_data' = r
    /\ IF r.kind = "continue"
       THEN /\ trace' = trace \o RecvEvents
            /\ UNCHANGED <<socket, connected, unused, ret, outcome, pc>>
       ELSE Finish(socket, RecvEvents, CommandResult(r),
                   IF CommandException(r) = "" THEN "response" ELSE "exception")
    /\ UNCHANGED <<unreal_connection, command, params, sent, wire, entry, guc, toolVars, calls>>

\* recv returns the next n bytes of the answer
RecvChunk(n) ==
    /\ pc = "recv"
    /\ Len(chunks) + n <= Len(wire)
    /\ LET data == SubSeq(wire, 1, Len(chunks) + n) IN AfterRecv(data, AfterChunk(data))

\* recv returns b'': the peer has closed
RecvEof ==
    /\ pc = "recv"
    /\ AfterRecv(chunks, AfterEof(chunks))

\* recv raises socket.timeout
RecvTimeout ==
    /\ pc = "recv"
    /\ AfterRecv(chunks, AfterTimeout(chunks))

\* recv raises another error
RecvError ==
    /\ pc = "recv"
    /\ AfterRecv(chunks, Raise("[Errno 104] Connection reset by peer"))

(***************************************************************************)
(* Tools and helpers that issue commands                                   *)
(***************************************************************************)
\* variant of FailDict: the dictionary has no message
FailDict_bare(msg) == JObj(<< <<S_success, PyFalse>> >>)

\* {"success": False, "message": msg}
FailDict(msg) == JObj(<< <<S_success, PyFalse>>, <<S_message, Text(msg)>> >>)

\* a list of n actors; what each entry holds is left out
ActorList(n) == JArr([k \in 1..n |-> Text("actor")])

\* the command ended in a connect failure, a send/receive error or a timeout
SocketFailure(how) == how \in {"noconnect", "exception"}

\* a tool call begins: it is call number calls + 1
Begin(name) ==
    /\ pc = "idle"
    /\ calls < MaxCalls
    /\ calls' = calls + 1
    /\ tool' = name
    /\ spawned' = 0 /\ cmdFailed' = FALSE
    /\ UNCHANGED <<args, locals, log>>

\* a tool call returns result
Return(result) ==
    /\ toolRet' = result
    /\ pc' = "idle"
    /\ ResetCommand
    /\ UNCHANGED <<args, locals, log>>

\* find_actors_by_name(pattern), up to its send_command
FindActorsByName(pattern, ok) ==
    /\ Begin("find_actors_by_name")
    /\ GetUnrealConnection(ok)
    /\ IF ~guc'.returned
       THEN Return(FailDict("Failed to connect to Unreal Engine"))
       ELSE /\ toolRet' = Unset
            /\ Enter(S_find_actors_by_name, JObj(<< <<S_pattern, JStr(pattern)>> >>))

\* "return response or {...}"
FindActorsByNameReturn ==
    /\ pc = "returned" /\ tool = "find_actors_by_name"
    /\ cmdFailed' = SocketFailure(outcome)
    /\ Return(PyOr(ret, FailDict("No response from Unreal")))
    /\ UNCHANGED <<connVars, unused, guc, tool, spawned, calls>>

\* a helper that was handed the connection calls send_command(cmd, prm)
SendCommandCall(cmd, prm) ==
    /\ Begin("send_command")
    /\ unreal_connection
    /\ UNCHANGED <<connVars, unused, guc>>
    /\ toolRet' = Unset
    /\ Enter(cmd, prm)

SendCommandCallReturn ==
    /\ pc = "returned" /\ tool = "send_command"
    /\ cmdFailed' = SocketFailure(outcome)
    /\ Return(ret)
    /\ UNCHANGED <<connVars, unused, guc, tool, spawned, calls>>

\* the spawn_actor parameters of a block; location, scale and mesh, which
\* are arithmetic on the arguments, are left out
BlockParams(name) ==
    JObj(<< <<S_name, JStr(name)>>, <<S_type, JStr(<<"S", "M", "A">>)>> >>)

\* create_restaurant(unreal, ...), up to its send_command
CreateRestaurant ==
    /\ Begin("create_restaurant")
    /\ unreal_connection
    /\ UNCHANGED <<connVars, unused, guc>>
    /\ toolRet' = Unset
    /\ Enter(S_spawn_actor, BlockParams(<<"R", "_", "M", "a", "i", "n">>))

\* result and result.get("status") == "success"
IsSuccess(result) ==
    Truthy(result) /\ DictGet(result, S_status, PyNone) = JStr(S_success)

CreateRestaurantReturn ==
    /\ pc = "returned" /\ tool = "create_restaurant"
    /\ LET n == IF IsSuccess(ret) THEN 1 ELSE 0
       IN  /\ spawned' = n
           /\ Return(JObj(<< <<S_success, PyTrue>>, <<S_actors, ActorList(n)>> >>))
    /\ cmdFailed' = SocketFailure(outcome)
    /\ UNCHANGED <<connVars, unused, guc, tool, calls>>

(***************************************************************************)
(* Inputs                                                                  *)
(***************************************************************************)
Patterns == {<<"a">>, <<NonAscii, "\"">>}
Commands == {S_spawn_actor, <<NonAscii>>}
ParamsValues == {PyNone, JObj(<<>>),
                 JObj(<< <<S_name, JStr(<<"a", "\\">>)>>,
                         <<S_params, JObj(<< <<S_type, JArr(<<JNum(<<"1">>), PyFalse>>)>> >>)>> >>)}

Next ==
    \/ \E ok \in BOOLEAN : Startup(ok)
    \/ Shutdown
    \/ \E ok \in BOOLEAN : SendCommandConnect(ok)
    \/ \E w \in Wires : SendAll(w)
    \/ SendAllFails
    \/ \E n \in 1..Len(wire) : RecvChunk(n)
    \/ RecvEof
    \/ RecvTimeout
    \/ RecvError
    \/ \E p \in Patterns, ok \in BOOLEAN : FindActorsByName(p, ok)
    \/ FindActorsByNameReturn
    \/ \E c \in Commands, prm \in ParamsValues : SendCommandCall(c, prm)
    \/ SendCommandCallReturn
    \/ CreateRestaurant
    \/ CreateRestaurantReturn

Spec == Init /\ [][Next]_vars

(***************************************************************************)
(* Properties                                                              *)
(***************************************************************************)
InCommand == pc \in {"send", "recv", "returned"} /\ outcome # "noconnect"
Lead == IF entry.st = "None" THEN <<>> ELSE << <<"close", "old">> >>
EvOpen == <<"open", "new">>
EvSendall == <<"sendall", "new">>
EvRecv == <<"recv", "new">>
EvClose == <<"close", "new">>

\* C1: in a send_command call whose connect succeeds the socket operations
\* are, in this order: the close of the socket left from before (if any),
\* one open, one sendall, recv (once sendall returned), the close of the new
\* socket; at the return the trace is complete and no socket is held
C1_CommandOrder ==
    InCommand =>
        CASE pc = "send" -> trace = Lead \o <<EvOpen>> /\ socket.st = "open"
          [] pc = "recv" -> /\ trace \in {Lead \o <<EvOpen, EvSendall>>,
                                          Lead \o <<EvOpen, EvSendall, EvRecv>>}
                            /\ socket.st = "open"
          [] pc = "returned" -> /\ trace \in {Lead \o <<EvOpen, EvSendall, EvClose>>,
                                              Lead \o <<EvOpen, EvSendall, EvRecv, EvClose>>}
                                /\ (outcome = "response" => trace[Len(trace) - 1] = EvRecv)
                                /\ socket.st = "None"

\* a call that found an open socket, got its answer and returned
C1_Witness ==
    /\ pc = "returned" /\ outcome = "response" /\ entry.st = "open"
    /\ trace = << <<"close", "old">>, EvOpen, EvSendall, EvRecv, EvClose>>

Opens == {i \in 1..Len(trace) : trace[i][1] \in {"open", "refused"}}

\* C2: every send_command call makes one new socket, and sendall and recv
\* are only ever issued on the socket made in the call in progress
C2_FreshSocket ==
    /\ pc \in {"send", "recv"} => socket.fresh /\ socket.by = "send_command"
    /\ \A i \in 1..Len(trace) : trace[i][1] \in {"sendall", "recv"} => trace[i][2] = "new"
    /\ pc \in {"send", "recv", "returned"} =>
           Cardinality(Opens) = 1 /\ \A i \in Opens : trace[i][2] = "new"

\* the second call on a handle, begun with the socket that a refused
\* connect had left in it
C2_Witness ==
    /\ calls = 2 /\ guc.had /\ pc = "recv" /\ chunks # <<>>
    /\ entry.st = "created"

\* C3 as claimed: whenever send_command has returned, self.socket is None
\* and self.connected is False
C3_NoSocketAfterReturn ==
    pc = "returned" => socket.st = "None" /\ ~connected

\* C4 as claimed: no connection is closed without having carried a command
\* and no socket is open between tool calls
C4_Original ==
    /\ unused = {}
    /\ pc = "idle" => socket.st # "open"

\* C4 as amended: a connection made by send_command carries exactly one
\* sendall and is closed before send_command returns; a connection made by
\* get_unreal_connection carries none, and only such a connection is open
\* between tool calls or closed unused
C4_OneCommandPerConnection ==
    /\ unused \subseteq {"get_unreal_connection"}
    /\ socket.sent <= 1
    /\ socket.by = "get_unreal_connection" => socket.sent = 0
    /\ (socket.st = "open" /\ socket.by = "send_command") => pc \in {"send", "recv"}
    /\ (pc = "recv" \/ (pc = "returned" /\ outcome # "noconnect")) =>
           Cardinality({i \in 1..Len(trace) : trace[i][1] = "sendall"}) = 1

\* the connection made at startup was closed unused by a command that then
\* ran on its own connection
C4_Witness ==
    /\ unused = {"get_unreal_connection"}
    /\ pc = "returned" /\ outcome = "response" /\ socket.st = "None"

\* C5: get_unreal_connection returns an existing handle as it is, without a
\* connect; with no handle it makes one object and one connect attempt, and
\* when that fails it returns None and leaves the handle None
C5_LazyHandle ==
    pc # "start" =>
        /\ guc.had => ~guc.created /\ guc.attempts = 0 /\ guc.returned
        /\ ~guc.had => guc.created /\ guc.attempts = 1 /\ (guc.returned <=> guc.ok)
        /\ (~guc.had /\ ~guc.ok) => ~unreal_connection

\* the connect at startup failed and the first tool call tried again
C5_Witness ==
    /\ calls = 1 /\ tool = "find_actors_by_name" /\ ~guc.had /\ guc.attempts = 1
    /\ guc.ok /\ unreal_connection /\ pc = "connect"

\* C6: the bytes given to sendall decode and parse to an object whose keys
\* are type and params, in this order, with the command name and the
\* caller's dictionary, {} standing for None and for {}
C6_CommandMessage ==
    sent # <<>> =>
        LET d == DecodeUtf8(sent)
            x == Loads(d.val)
        IN  /\ d.ok /\ x.ok /\ x.val.t = "obj"
            /\ Len(x.val.v) = 2
            /\ x.val.v[1] = <<S_type, JStr(command)>>
            /\ x.val.v[2][1] = S_params
            /\ x.val.v[2][2] = (IF params \in {PyNone, JObj(<<>>)} THEN JObj(<<>>) ELSE params)

\* send_command(<non-ASCII name>, None) has written its message
C6_Witness ==
    /\ pc = "recv" /\ params = PyNone /\ command = <<NonAscii>>
    /\ sent = <<"{", "\"", "t", "y", "p", "e", "\"", ":", " ", "\"", "\\", "u", "0", "0", "e", "9", "\"",
                ",", " ", "\"", "p", "a", "r", "a", "m", "s", "\"", ":", " ", "{", "}", "}">>

RecvStopped ==
    \/ response_data.kind = "none"
    \/ /\ response_data.kind = "raise"
       /\ response_data.text \in {"Connection closed before receiving data",
                                  "Timeout receiving Unreal response",
                                  "[Errno 104] Connection reset by peer"}

ObjectWires == {w \in Wires : IsCompleteJson(w) /\ Loads(DecodeUtf8(w).val).val.t = "obj"}

\* C8 as claimed: when the answer is a JSON object and recv delivers its
\* bytes in chunks without failing, receive_full_response returns all of it
C8_CompleteResponse ==
    (pc = "returned" /\ outcome \in {"response", "exception"} /\ sent # <<>>
        /\ trace[Len(trace) - 1] = EvRecv /\ wire \in ObjectWires /\ ~RecvStopped) =>
        response_data = ReturnData(wire)

\* C9: send_command returns None exactly when connect failed and a dict
\* otherwise; after an exception the dict is {"status": "error", "error": text}
C9_NeverRaises ==
    pc = "returned" =>
        /\ (ret = PyNone) <=> (outcome = "noconnect")
        /\ outcome # "noconnect" => ret.t = "obj"
        /\ outcome = "exception" =>
               /\ Len(ret.v) = 2
               /\ ret.v[1] = <<S_status, JStr(S_error)>>
               /\ ret.v[2][1] = S_error /\ ret.v[2][2].t = "str"
               /\ (response_data.kind = "raise" => ret.v[2][2] = Text(response_data.text))

\* the answer [1] is valid JSON and no object
C9_Witness ==
    /\ pc = "returned" /\ wire = W_array /\ response_data = ReturnData(W_array)
    /\ outcome = "exception"
    /\ ret = JObj(<< <<S_status, JStr(S_error)>>,
                     <<S_error, Text("object has no attribute 'get'")>> >>)

\* the result says the tool failed
ReportsFailure(result) ==
    \/ DictGet(result, S_success, PyNone) = PyFalse
    \/ DictGet(result, S_status, PyNone) = JStr(S_error)

\* C10 as claimed: a tool or helper one of whose commands failed at the
\* socket returns a result that reports failure and not success True
C10_FailureReported ==
    (pc = "idle" /\ tool \in {"find_actors_by_name", "create_restaurant"} /\ cmdFailed) =>
        /\ ReportsFailure(toolRet)
        /\ DictGet(toolRet, S_success, PyNone) # PyTrue

\* the find_actors_by_name call that has returned did not deliver: it got no
\* handle, its command failed at the socket, or Unreal answered with an error
FindFailed ==
    /\ pc = "idle" /\ tool = "find_actors_by_name"
    /\ (~guc.returned \/ cmdFailed \/ ReportsFailure(toolRet))

\* success is False and a message or an error is there
SuccessFalseShape(r) ==
    /\ r.t = "obj"
    /\ DictGet(r, S_success, PyNone) = PyFalse
    /\ (HasKey(r, S_message) \/ HasKey(r, S_error))

\* status is "error" and the error text is there
StatusErrorShape(r) ==
    /\ r.t = "obj"
    /\ DictGet(r, S_status, PyNone) = JStr(S_error)
    /\ DictGet(r, S_error, PyNone).t = "str"

S_count_found == <<"c", "o", "u", "n", "t", "_", "f", "o", "u", "n", "d">>
S_count_deleted == <<"c", "o", "u", "n", "t", "_", "d", "e", "l", "e", "t", "e", "d">>
S_dry_run == <<"d", "r", "y", "_", "r", "u", "n">>
S_actor_names == <<"a", "c", "t", "o", "r", "_", "n", "a", "m", "e", "s">>
S_requires_confirmation == <<"r", "e", "q", "u", "i", "r", "e", "s", "_", "c", "o", "n", "f", "i", "r", "m", "a", "t", "i", "o", "n">>
S_failed_deletions == <<"f", "a", "i", "l", "e", "d", "_", "d", "e", "l", "e", "t", "i", "o", "n", "s">>

\* longest actors list an answer of Unreal holds
MaxActors == 2

\* {"status": "success"}
R_success == JObj(<< <<S_status, JStr(S_success)>> >>)

\* what send_command returns for a command that only reports how it went
Responses == {PyNone, ErrorResult("Timeout receiving Unreal response"), R_success}

\* the variables that only the socket steps of Spec change
specOnly == <<cmdVars, spawned, cmdFailed, calls>>

\* the state once server_lifespan has started with or without a connection
ToolInit ==
    /\ pc = "idle"
    /\ \E ok \in BOOLEAN :
          /\ unreal_connection = ok
          /\ socket = IF ok THEN NewSocket(TRUE, "get_unreal_connection") ELSE NoSocket
          /\ connected = ok
          /\ guc = [had |-> FALSE, created |-> TRUE, attempts |-> 1, ok |-> ok,
                    returned |-> ok]
    /\ command = <<>> /\ params = PyNone /\ sent = <<>> /\ wire = <<>>
    /\ chunks = <<>> /\ response_data = Continue /\ ret = Unset /\ outcome = "unset"
    /\ entry = NoSocket /\ trace = <<>>
    /\ unused = {}
    /\ tool = ""
    /\ spawned = 0 /\ cmdFailed = FALSE /\ toolRet = Unset
    /\ calls = 0
    /\ args = NoArgs /\ locals = NoLocals /\ log = <<>>

\* a tool is called with arguments a; its first statement is
\* get_unreal_connection(), and without a handle it returns at once
ToolCall(name, a, frame, ok, next) ==
    /\ pc = "idle"
    /\ tool' = name /\ args' = a /\ locals' = frame /\ log' = <<>>
    /\ GetUnrealConnection(ok)
    /\ IF guc'.returned
       THEN pc' = next /\ toolRet' = Unset
       ELSE pc' = "idle" /\ toolRet' = FailDict("Failed to connect to Unreal Engine")
    /\ UNCHANGED specOnly

\* unreal.send_command(cmd, {... arg ...}) returns r: the socket held before
\* is closed, and after a refused connect the new one is left in place
Call(cmd, arg, r) ==
    /\ log' = Append(log, [cmd |-> cmd, arg |-> arg, ret |-> r])
    /\ unused' = unused \cup Unused(socket)
    /\ socket' = IF r = PyNone THEN NewSocket(FALSE, "send_command") ELSE NoSocket
    /\ connected' = FALSE
    /\ UNCHANGED <<unreal_connection, guc>>

\* a step that sends nothing
NoCall == UNCHANGED <<connVars, unused, guc, log>>

\* the tool returns result
Done(result) == toolRet' = result /\ pc' = "idle"

(***************************************************************************)
(* clear_scene_by_prefix                                                   *)
(***************************************************************************)
\* s.startswith(p)
StartsWith(s, p) == Len(p) <= Len(s) /\ SubSeq(s, 1, Len(p)) = p

\* the filter loop over response["actors"]: the names that start with the
\* prefix, in order; ok is FALSE when an entry's name is no string, where
\* startswith raises
RECURSIVE MatchingActors(_, _)
MatchingActors(actors, prefix) ==
    IF actors = <<>> THEN [ok |-> TRUE, val |-> <<>>]
    ELSE LET actor == Head(actors)
             nm == IF actor.t = "obj" THEN DictGet(actor, S_name, JStr(<<>>)) ELSE actor
             rest == MatchingActors(Tail(actors), prefix)
         IN  IF actor.t \notin {"obj", "str"} THEN rest
             ELSE IF nm.t # "str" THEN [ok |-> FALSE, val |-> <<>>]
             ELSE IF StartsWith(nm.v, prefix)
                  THEN [ok |-> rest.ok, val |-> <<nm.v>> \o rest.val]
                  ELSE rest

\* variant of ClearMode: dry_run False is enough to delete
ClearMode_loose(dry_run, confirm) ==
    IF dry_run THEN "dry" ELSE "delete"

\* the two early returns: "if dry_run" first, then "if not confirm"
ClearMode(dry_run, confirm) ==
    IF dry_run THEN "dry"
    ELSE IF ~confirm THEN "unconfirmed"
    ELSE "delete"

NameList(names) == JArr([i \in 1..Len(names) |-> JStr(names[i])])

\* the result of a dry run
DryRunResult(matching) ==
    JObj(<< <<S_success, PyTrue>>,
            <<S_message, Text("Dry run: Found actors that would be deleted")>>,
            <<S_count_found, PyInt(Len(matching))>>,
            <<S_count_deleted, PyInt(0)>>,
            <<S_dry_run, PyTrue>>,
            <<S_actor_names, NameList(matching)>> >>)

\* the result when confirm is missing
UnconfirmedResult(matching) ==
    JObj(<< <<S_success, PyFalse>>,
            <<S_message, Text("Found actors but deletion not confirmed")>>,
            <<S_count_found, PyInt(Len(matching))>>,
            <<S_count_deleted, PyInt(0)>>,
            <<S_dry_run, PyFalse>>,
            <<S_requires_confirmation, PyTrue>>,
            <<S_actor_names, NameList(matching)>> >>)

\* variant of FailedItem: the key is always set
FailedItem_always(failed) == << <<S_failed_deletions, NameList(failed)>> >>

\* "if failed_deletions: result["failed_deletions"] = failed_deletions"
FailedItem(failed) ==
    IF failed # <<>> THEN << <<S_failed_deletions, NameList(failed)>> >> ELSE <<>>

\* the result after the delete loop
DeleteResult(matching, deleted_count, failed) ==
    JObj(<< <<S_success, PyTrue>>,
            <<S_message, Text(IF failed # <<>> THEN "Deleted actors (some failed)"
                                               ELSE "Deleted actors")>>,
            <<S_count_found, PyInt(Len(matching))>>,
            <<S_count_deleted, PyInt(deleted_count)>>,
            <<S_dry_run, PyFalse>>,
            <<S_actor_names, NameList(matching)>> >> \o FailedItem(failed))

\* clear_scene_by_prefix(prefix, confirm, dry_run) is called
ClearSceneByPrefix(prefix, confirm, dry_run, ok) ==
    ToolCall("clear_scene_by_prefix",
             [prefix |-> prefix, confirm |-> confirm, dry_run |-> dry_run], NoLocals,
             ok, "clear_find")

\* the find_actors_by_name command, the filter and the two early returns
ClearSceneFind(response) ==
    /\ pc = "clear_find"
    /\ Call("find_actors_by_name", args.prefix, response)
    /\ IF ~Truthy(response) \/ DictGet(response, S_status, PyNone) # JStr(S_success)
       THEN Done(FailDict("Failed to find actors")) /\ UNCHANGED locals
       ELSE LET m == MatchingActors(DictGet(response, S_actors, JArr(<<>>)).v, args.prefix)
                mode == ClearMode(args.dry_run, args.confirm)
            IN  CASE ~m.ok -> Done(FailDict("object has no attribute 'startswith'"))
                                 /\ UNCHANGED locals
                  [] m.ok /\ mode = "dry" -> Done(DryRunResult(m.val)) /\ UNCHANGED locals
                  [] m.ok /\ mode = "unconfirmed" ->
                        Done(UnconfirmedResult(m.val)) /\ UNCHANGED locals
                  [] m.ok /\ mode = "delete" ->
                        /\ locals' = [matching_actors |-> m.val, deleted_count |-> 0,
                                      failed_deletions |-> <<>>, i |-> 1]
                        /\ pc' = "clear_delete"
                        /\ UNCHANGED toolRet
    /\ UNCHANGED <<tool, args, specOnly>>

\* one round of the delete loop; safe_delete_actor passes the name to the
\* delete_actor command and returns what send_command returned
ClearSceneDelete(delete_response) ==
    /\ pc = "clear_delete"
    /\ locals.i <= Len(locals.matching_actors)
    /\ LET actor_name == locals.matching_actors[locals.i]
       IN  /\ Call("delete_actor", actor_name, delete_response)
           /\ locals' = IF IsSuccess(delete_response)
                        THEN [locals EXCEPT !.deleted_count = @ + 1, !.i = @ + 1]
                        ELSE [locals EXCEPT !.failed_deletions = Append(@, actor_name),
                                            !.i = @ + 1]
    /\ UNCHANGED <<pc, tool, args, toolRet, specOnly>>

\* the loop is over
ClearSceneReturn ==
    /\ pc = "clear_delete"
    /\ locals.i > Len(locals.matching_actors)
    /\ Done(DeleteResult(locals.matching_actors, locals.deleted_count,
                         locals.failed_deletions))
    /\ NoCall
    /\ UNCHANGED <<tool, args, locals, specOnly>>

\* inputs
Prefixes == {<<"W">>, <<>>}
FoundEntries ==
    {JStr(<<"W", "1">>), JStr(<<"X">>),
     JObj(<< <<S_name, JStr(<<"W", "2">>)>> >>), JObj(<<>>),
     JObj(<< <<S_name, PyInt(7)>> >>), PyInt(7)}
ActorLists == UNION {[1..n -> FoundEntries] : n \in 0..MaxActors}
FindResponses ==
    {PyNone, ErrorResult("Timeout receiving Unreal response"), R_success}
        \cup {JObj(<< <<S_status, JStr(S_success)>>, <<S_actors, JArr(l)>> >>) : l \in ActorLists}

\* the delete commands of the call, in order
Deletes == SelectSeq(log, LAMBDA c : c.cmd = "delete_actor")

\* those of them that did not return status "success"
FailedDeletes == SelectSeq(Deletes, LAMBDA c : ~IsSuccess(c.ret))

ClearReturned == pc = "idle" /\ tool = "clear_scene_by_prefix" /\ toolRet # Unset

\* C12: clear_scene_by_prefix sends a delete command only with confirm True
\* and dry_run False, and only for a name that starts with the prefix; with
\* any other combination no delete is sent and the result's count_deleted is 0
C12_DeleteOnlyConfirmed ==
    tool = "clear_scene_by_prefix" =>
        /\ \A i \in 1..Len(Deletes) :
              args.confirm /\ ~args.dry_run /\ StartsWith(Deletes[i].arg, args.prefix)
        /\ (ClearReturned /\ ~(args.confirm /\ ~args.dry_run)) =>
              /\ Deletes = <<>>
              /\ DictGet(toolRet, S_count_deleted, PyInt(0)) = PyInt(0)
              /\ (HasKey(toolRet, S_count_found) => HasKey(toolRet, S_count_deleted))

\* two actors matched, confirm was left out, and nothing was deleted
C12_Witness ==
    /\ ClearReturned /\ ~args.confirm /\ ~args.dry_run
    /\ DictGet(toolRet, S_count_found, PyInt(0)) = PyInt(2)
    /\ DictGet(toolRet, S_count_deleted, PyNone) = PyInt(0)
    /\ Len(log) = 1

\* C13: when clear_scene_by_prefix deletes, one delete is attempted for each
\* entry of actor_names, count_found = count_deleted + len(failed_deletions),
\* and failed_deletions is absent exactly when it would be empty
C13_DeleteAccounting ==
    (ClearReturned /\ args.confirm /\ ~args.dry_run /\ HasKey(toolRet, S_count_found)) =>
        LET names == DictGet(toolRet, S_actor_names, PyNone).v
            failed == DictGet(toolRet, S_failed_deletions, JArr(<<>>)).v
        IN  /\ Len(Deletes) = Len(names)
            /\ \A i \in 1..Len(names) : JStr(Deletes[i].arg) = names[i]
            /\ DictGet(toolRet, S_count_found, PyNone)
                  = PyInt(DictGet(toolRet, S_count_deleted, PyNone).v[1] + Len(failed))
            /\ failed = NameList([i \in 1..Len(FailedDeletes) |-> FailedDeletes[i].arg]).v
            /\ HasKey(toolRet, S_failed_deletions) <=> FailedDeletes # <<>>

\* two actors matched, one delete succeeded and one failed
C13_Witness ==
    /\ ClearReturned /\ args.confirm /\ ~args.dry_run
    /\ DictGet(toolRet, S_count_found, PyNone) = PyInt(2)
    /\ DictGet(toolRet, S_count_deleted, PyNone) = PyInt(1)
    /\ Len(DictGet(toolRet, S_failed_deletions, JArr(<<>>)).v) = 1
    /\ Len(Deletes) = 2

(***************************************************************************)
(* create_maze                                                             *)
(***************************************************************************)
\* most cells (rows * cols) a call is made with
MaxCells == 4

\* directions = [(0, 1), (1, 0), (0, -1), (-1, 0)]
Directions == {<<0, 1>>, <<1, 0>>, <<0, -1>>, <<-1, 0>>}

\* [[True for _ in range(cols * 2 + 1)] for _ in range(rows * 2 + 1)]
AllWalls(rows, cols) == [p \in (0..(rows * 2)) \X (0..(cols * 2)) |-> TRUE]

\* the position of cell (row, col) in the grid
CellPos(row, col) == <<row * 2 + 1, col * 2 + 1>>

\* variant of Unvisited: only the bounds are looked at
Unvisited_any(maze, rows, cols, new_row, new_col) ==
    0 <= new_row /\ new_row < rows /\ 0 <= new_col /\ new_col < cols

\* "0 <= new_row < rows and 0 <= new_col < cols and maze[...]"
Unvisited(maze, rows, cols, new_row, new_col) ==
    /\ 0 <= new_row /\ new_row < rows /\ 0 <= new_col /\ new_col < cols
    /\ maze[CellPos(new_row, new_col)]

\* variant of Entrance: the opening is at the corner
Entrance_corner == <<0, 0>>

\* "maze[1][0] = False"
Entrance == <<1, 0>>

\* "maze[rows * 2 - 1][cols * 2] = False"
Exit(rows, cols) == <<rows * 2 - 1, cols * 2>>

\* the frame of one carve_path(row, col) activation: the cell and the
\* directions its for loop has still to try.  random.shuffle puts them in
\* any order, so whichever of them the loop takes next is any of them
Frame(row, col, directions) == [row |-> row, col |-> col, directions |-> directions]

\* create_maze(rows, cols) is called
CreateMaze(rows, cols, ok) ==
    ToolCall("create_maze", [rows |-> rows, cols |-> cols], NoLocals, ok, "maze_init")

\* the grid is made and carve_path(0, 0) is entered: the cell is opened and
\* the directions are shuffled
CreateMazeInit ==
    /\ pc = "maze_init"
    /\ locals' = [maze |-> [AllWalls(args.rows, args.cols) EXCEPT ![CellPos(0, 0)] = FALSE],
                  stack |-> <<Frame(0, 0, Directions)>>]
    /\ pc' = "carve"
    /\ NoCall
    /\ UNCHANGED <<tool, args, toolRet, specOnly>>

\* one round of the for loop of the innermost carve_path: for an unvisited
\* neighbour the wall between is opened and carve_path is entered for it
CarvePath(direction) ==
    /\ pc = "carve"
    /\ locals.stack # <<>>
    /\ LET top == locals.stack[Len(locals.stack)]
       IN  /\ direction \in top.directions
           /\ LET dr == direction[1]
                  dc == direction[2]
                  new_row == top.row + dr
                  new_col == top.col + dc
                  here == [locals.stack EXCEPT ![Len(locals.stack)].directions = @ \ {direction}]
              IN  IF Unvisited(locals.maze, args.rows, args.cols, new_row, new_col)
                  THEN locals' =
                         [maze |-> [locals.maze EXCEPT
                                      ![<<top.row * 2 + 1 + dr, top.col * 2 + 1 + dc>>] = FALSE,
                                      ![CellPos(new_row, new_col)] = FALSE],
                          stack |-> Append(here, Frame(new_row, new_col, Directions))]
                  ELSE locals' = [locals EXCEPT !.stack = here]
    /\ NoCall
    /\ UNCHANGED <<pc, tool, args, toolRet, specOnly>>

\* the for loop of the innermost carve_path is over: it returns
CarvePathReturn ==
    /\ pc = "carve"
    /\ locals.stack # <<>>
    /\ locals.stack[Len(locals.stack)].directions = {}
    /\ locals' = [locals EXCEPT !.stack = SubSeq(@, 1, Len(@) - 1)]
    /\ NoCall
    /\ UNCHANGED <<pc, tool, args, toolRet, specOnly>>

S_maze_size == <<"m", "a", "z", "e", "_", "s", "i", "z", "e">>

\* carve_path(0, 0) has returned: entrance and exit are opened, the walls
\* and the two markers are spawned and the result is returned.  The spawn
\* calls do not change the grid; of them the last one, the exit marker, is
\* recorded
CreateMazeBuild(exit_marker) ==
    /\ pc = "carve"
    /\ locals.stack = <<>>
    /\ locals' = [locals EXCEPT !.maze = [@ EXCEPT ![Entrance] = FALSE,
                                                   ![Exit(args.rows, args.cols)] = FALSE]]
    /\ Call("spawn_actor", <<"Maze_Exit">>, exit_marker)
    /\ Done(JObj(<< <<S_success, PyTrue>>,
                    <<S_maze_size, JStr(<<ToString(args.rows), "x", ToString(args.cols)>>)>> >>))
    /\ UNCHANGED <<tool, args, specOnly>>

MazeNext ==
    \/ \E rows \in 1..MaxCells, cols \in 1..MaxCells, ok \in BOOLEAN :
          rows * cols <= MaxCells /\ CreateMaze(rows, cols, ok)
    \/ CreateMazeInit
    \/ \E d \in Directions : CarvePath(d)
    \/ CarvePathReturn
    \/ \E r \in Responses : CreateMazeBuild(r)

MazeSpec == ToolInit /\ [][MazeNext]_vars

\* the open positions of a grid
Open(maze) == {p \in DOMAIN maze : ~maze[p]}

\* p and q are 4-neighbours
Adjacent(p, q) ==
    \/ p[1] = q[1] /\ (p[2] = q[2] + 1 \/ q[2] = p[2] + 1)
    \/ p[2] = q[2] /\ (p[1] = q[1] + 1 \/ q[1] = p[1] + 1)

\* the open positions that a walk from those of seen reaches
RECURSIVE Reachable(_, _)
Reachable(maze, seen) ==
    LET more == {q \in Open(maze) : \E p \in seen : Adjacent(p, q)}
    IN  IF more \subseteq seen THEN seen ELSE Reachable(maze, seen \cup more)

MazeReturned ==
    pc = "idle" /\ tool = "create_maze" /\ DictGet(toolRet, S_success, PyNone) = PyTrue

\* C14: in the final grid of create_maze a path of open positions leads from
\* the entrance (1, 0) to the exit (2*rows-1, 2*cols), whatever the shuffles
C14_MazeSolvable ==
    MazeReturned =>
        /\ ~locals.maze[Entrance]
        /\ Exit(args.rows, args.cols) \in Reachable(locals.maze, {Entrance})

\* a two by two maze carved down, right and up: the wall right of the first cell stands
C14_Witness ==
    /\ MazeReturned /\ args.rows = 2 /\ args.cols = 2
    /\ ~locals.maze[<<3, 2>>] /\ locals.maze[<<1, 2>>]

(***************************************************************************)
(* batch_spawn_actors and clone_actor_array                                *)
(***************************************************************************)
S_stats == <<"s", "t", "a", "t", "s">>
S_total_requested == <<"t", "o", "t", "a", "l", "_", "r", "e", "q", "u", "e", "s", "t", "e", "d">>
S_total_spawned == <<"t", "o", "t", "a", "l", "_", "s", "p", "a", "w", "n", "e", "d">>
S_failed_count == <<"f", "a", "i", "l", "e", "d", "_", "c", "o", "u", "n", "t">>
S_chunks_processed == <<"c", "h", "u", "n", "k", "s", "_", "p", "r", "o", "c", "e", "s", "s", "e", "d">>
S_final_name == <<"f", "i", "n", "a", "l", "_", "n", "a", "m", "e">>
S_pattern_used == <<"p", "a", "t", "t", "e", "r", "n", "_", "u", "s", "e", "d">>
S_count == <<"c", "o", "u", "n", "t">>

\* the local variables of batch_spawn_actors(actors, chunk_size) as its loop begins
BatchFrame(actors, chunk_size) ==
    [actors |-> actors, chunk_size |-> chunk_size,
     spawned_actors |-> <<>>, failed_count |-> 0, chunks_processed |-> 0,
     chunk_start |-> 0, chunk_end |-> 0, j |-> 0]

\* chunk_start is a value of range(0, total_requested, chunk_size); the
\* range of a negative step that starts at 0 is empty
InRange(chunk_start, total_requested, chunk_size) ==
    chunk_size > 0 /\ chunk_start < total_requested

Min(a, b) == IF a <= b THEN a ELSE b

\* the name an actor is listed under once its spawn has succeeded
SpawnedName(actor_params, response) ==
    LET actor_name == DictGet(actor_params, S_name, JStr(<<"A", "c", "t", "o", "r">>))
        result == DictGet(response, S_result, PyNone)
    IN  IF result.t = "obj" THEN DictGet(result, S_final_name, actor_name) ELSE actor_name

\* the dictionary batch_spawn_actors returns after its loop
BatchResult(f) ==
    JObj(<< <<S_success, PyTrue>>,
            <<S_message, Text("Spawned actors")>>,
            <<S_actors, JArr(f.spawned_actors)>>,
            <<S_stats, JObj(<< <<S_total_requested, PyInt(Len(f.actors))>>,
                               <<S_total_spawned, PyInt(Len(f.spawned_actors))>>,
                               <<S_failed_count, PyInt(f.failed_count)>>,
                               <<S_chunks_processed, PyInt(f.chunks_processed)>> >>)>> >>)

\* what clone_actor_array makes of the result of batch_spawn_actors
CloneResult(batch_result, pattern) ==
    IF ~Truthy(DictGet(batch_result, S_success, PyNone)) THEN batch_result
    ELSE JObj(<< <<S_success, PyTrue>>,
                 <<S_message, Text("Cloned actor")>>,
                 <<S_actors, DictGet(batch_result, S_actors, JArr(<<>>))>>,
                 <<S_pattern_used, JStr(<<pattern>>)>>,
                 <<S_count, PyInt(Len(DictGet(batch_result, S_actors, JArr(<<>>)).v))>>,
                 <<S_stats, DictGet(batch_result, S_stats, JObj(<<>>))>> >>)

\* batch_spawn_actors returns batch_result, to the MCP client or to
\* clone_actor_array
BatchEnd(batch_result) ==
    IF tool = "clone_actor_array"
    THEN Done(CloneResult(batch_result, args.pattern))
    ELSE Done(batch_result)

\* batch_spawn_actors(actors, chunk_size) is called
BatchSpawnActors(actors, chunk_size, ok) ==
    ToolCall("batch_spawn_actors", [actors |-> actors, chunk_size |-> chunk_size],
             BatchFrame(actors, chunk_size), ok, "batch_chunk")

\* the outer loop takes the next chunk
BatchChunk ==
    /\ pc = "batch_chunk"
    /\ InRange(locals.chunk_start, Len(locals.actors), locals.chunk_size)
    /\ locals' = [locals EXCEPT
                    !.chunk_end = Min(locals.chunk_start + locals.chunk_size, Len(locals.actors)),
                    !.chunks_processed = @ + 1,
                    !.j = locals.chunk_start]
    /\ pc' = "batch_actor"
    /\ NoCall
    /\ UNCHANGED <<tool, args, toolRet, specOnly>>

\* the inner loop spawns the next actor of the chunk
BatchActor(response) ==
    /\ pc = "batch_actor"
    /\ locals.j < locals.chunk_end
    /\ LET actor_params == locals.actors[locals.j + 1]
       IN  /\ actor_params.t = "obj"
           /\ Call("spawn_actor", DictGet(actor_params, S_name, JStr(<<"A", "c", "t", "o", "r">>)).v,
                   response)
           /\ locals' = IF IsSuccess(response)
                        THEN [locals EXCEPT
                                !.spawned_actors = Append(@, SpawnedName(actor_params, response)),
                                !.j = @ + 1]
                        ELSE [locals EXCEPT !.failed_count = @ + 1, !.j = @ + 1]
    /\ UNCHANGED <<pc, tool, args, toolRet, specOnly>>

\* the next entry of the chunk is no dictionary: actor_params.get raises,
\* which the inner except counts as a failure
BatchActorRaises ==
    /\ pc = "batch_actor"
    /\ locals.j < locals.chunk_end
    /\ locals.actors[locals.j + 1].t # "obj"
    /\ locals' = [locals EXCEPT !.failed_count = @ + 1, !.j = @ + 1]
    /\ NoCall
    /\ UNCHANGED <<pc, tool, args, toolRet, specOnly>>

\* the chunk is done
BatchChunkEnd ==
    /\ pc = "batch_actor"
    /\ locals.j >= locals.chunk_end
    /\ locals' = [locals EXCEPT !.chunk_start = @ + locals.chunk_size]
    /\ pc' = "batch_chunk"
    /\ NoCall
    /\ UNCHANGED <<tool, args, toolRet, specOnly>>

\* the range is used up, or range() has raised for a step of 0
BatchReturn ==
    /\ pc = "batch_chunk"
    /\ ~InRange(locals.chunk_start, Len(locals.actors), locals.chunk_size)
    /\ IF locals.chunk_size = 0
       THEN BatchEnd(FailDict("range() arg 3 must not be zero"))
       ELSE BatchEnd(BatchResult(locals))
    /\ NoCall
    /\ UNCHANGED <<tool, args, locals, specOnly>>

\* "chunk_size=100"
CloneChunkSize == 100

\* the patterns clone_actor_array knows
KnownPatterns == {"grid", "circle", "line", "scatter"}

\* actor_list: one cube for each position
CloneList(source_actor_name, count) ==
    [i \in 1..count |->
        JObj(<< <<S_name, JStr(source_actor_name \o <<"_", "c", "l", "o", "n", "e", "_", ToString(i - 1)>>)>>,
                <<S_type, JStr(<<"c", "u", "b", "e">>)>> >>)]

\* "First, verify the source actor exists": the test made of the answer
SourceExists(find_response, source_actor_name) ==
    /\ Truthy(find_response)
    /\ DictGet(find_response, S_status, PyNone) = JStr(S_success)

\* clone_actor_array(source_actor_name, count, pattern) is called
CloneActorArray(source_actor_name, count, pattern, ok) ==
    ToolCall("clone_actor_array",
             [source_actor_name |-> source_actor_name, count |-> count, pattern |-> pattern],
             NoLocals, ok, "clone_find")

\* the find command, the positions and the actor list
CloneFind(find_response) ==
    /\ pc = "clone_find"
    /\ Call("find_actors_by_name", args.source_actor_name, find_response)
    /\ CASE ~SourceExists(find_response, args.source_actor_name) ->
                Done(FailDict("Source actor not found")) /\ UNCHANGED locals
         [] SourceExists(find_response, args.source_actor_name)
              /\ args.pattern \notin KnownPatterns ->
                Done(FailDict("Unknown pattern")) /\ UNCHANGED locals
         [] SourceExists(find_response, args.source_actor_name)
              /\ args.pattern = "grid" /\ args.count = 0 ->
                Done(FailDict("division by zero")) /\ UNCHANGED locals
         [] OTHER ->
                /\ locals' = BatchFrame(CloneList(args.source_actor_name, args.count),
                                        CloneChunkSize)
                /\ pc' = "clone_batch"
                /\ UNCHANGED toolRet
    /\ UNCHANGED <<tool, args, specOnly>>

\* batch_spawn_actors(actor_list, chunk_size=100) is entered
CloneBatch(ok) ==
    /\ pc = "clone_batch"
    /\ GetUnrealConnection(ok)
    /\ IF guc'.returned
       THEN pc' = "batch_chunk" /\ UNCHANGED toolRet
       ELSE BatchEnd(FailDict("Failed to connect to Unreal Engine"))
    /\ UNCHANGED <<tool, args, locals, log, specOnly>>

\* inputs
BatchEntries == {JObj(<< <<S_name, JStr(<<"A">>)>> >>), JObj(<<>>), PyInt(7)}
BatchLists == UNION {[1..n -> BatchEntries] : n \in 0..MaxActors}
ChunkSizes == {-1, 0, 1, 2}
SpawnResponses ==
    Responses \cup
        {JObj(<< <<S_status, JStr(S_success)>>,
                 <<S_result, JObj(<< <<S_final_name, JStr(<<"A", "_", "1">>)>> >>)>> >>)}
SourceNames == {<<"S">>}
CloneFindResponses ==
    {PyNone, ErrorResult("Timeout receiving Unreal response"), R_success,
     JObj(<< <<S_status, JStr(S_success)>>, <<S_actors, JArr(<<>>)>> >>),
     JObj(<< <<S_status, JStr(S_success)>>, <<S_actors, JArr(<<JStr(<<"S">>)>>)>> >>)}
ClonePatterns == {"grid", "line", "spiral"}

BatchReturned ==
    /\ pc = "idle" /\ tool = "batch_spawn_actors"
    /\ DictGet(toolRet, S_success, PyNone) = PyTrue

\* a field of the stats of the result
Stat(k) == DictGet(DictGet(toolRet, S_stats, PyNone), k, PyNone).v[1]

\* C15 as claimed: whenever batch_spawn_actors returns success, for every
\* actors list and every chunk_size, total_spawned + failed_count equals
\* total_requested and the actors list has total_spawned entries
C15_StatsAccount ==
    BatchReturned =>
        /\ Stat(S_total_spawned) + Stat(S_failed_count) = Stat(S_total_requested)
        /\ Len(DictGet(toolRet, S_actors, PyNone).v) = Stat(S_total_spawned)

\* the answer to the find command lists an actor of that name
FindListsSource(find_response, source_actor_name) ==
    /\ Truthy(find_response)
    /\ DictGet(find_response, S_status, PyNone) = JStr(S_success)
    /\ MatchingActors(DictGet(find_response, S_actors, JArr(<<>>)).v, source_actor_name).val # <<>>

\* the find command of clone_actor_array was answered without an actor of
\* the source name
SourceMissing ==
    /\ tool = "clone_actor_array" /\ log # <<>>
    /\ ~FindListsSource(log[1].ret, args.source_actor_name)

\* C16 as claimed: when no actor of the source name exists, clone_actor_array
\* sends no spawn command and returns the failure "source actor not found"
C16_SourceVerified ==
    SourceMissing =>
        /\ \A i \in 1..Len(log) : log[i].cmd # "spawn_actor"
        /\ (pc = "idle" => toolRet = FailDict("Source actor not found"))

(***************************************************************************)
(* set_mesh_material_color and spawn_physics_blueprint_actor               *)
(***************************************************************************)
S_base_color_result == <<"b", "a", "s", "e", "_", "c", "o", "l", "o", "r", "_", "r", "e", "s", "u", "l", "t">>
S_color_result == <<"c", "o", "l", "o", "r", "_", "r", "e", "s", "u", "l", "t">>

\* "isinstance(color, list) and len(color) == 4"
FourList(color) == color.t = "arr" /\ Len(color.v) = 4

\* min(1.0, max(0.0, val)) is defined for every val of the list
Clampable(color) == \A i \in 1..Len(color.v) : color.v[i].t = "num"

\* variant of ColorSuccess: both settings must have worked
ColorSuccess_both(response_base, response_color) ==
    IsSuccess(response_base) /\ IsSuccess(response_color)

\* "Return success if either parameter setting worked"
ColorSuccess(response_base, response_color) ==
    IsSuccess(response_base) \/ IsSuccess(response_color)

\* the result of set_mesh_material_color after its two commands
ColorResult(response_base, response_color) ==
    IF ColorSuccess(response_base, response_color)
    THEN JObj(<< <<S_success, PyTrue>>,
                 <<S_message, Text("Color applied successfully")>>,
                 <<S_base_color_result, response_base>>,
                 <<S_color_result, response_color>> >>)
    ELSE FailDict("Failed to set color parameters")

\* the local variables of spawn_physics_blueprint_actor and of the
\* set_mesh_material_color call in progress
ColorFrame(stage, color) ==
    [stage |-> stage, color |-> color, response_base |-> PyNone, result |-> PyNone]

\* set_mesh_material_color returns result, to the MCP client or to
\* spawn_physics_blueprint_actor, which only logs a failure and goes on to
\* compile_blueprint
ColorEnd(result) ==
    IF tool = "spawn_physics_blueprint_actor"
    THEN /\ pc' = "physics_guc"
         /\ locals' = [locals EXCEPT !.stage = "compile_blueprint"]
         /\ UNCHANGED toolRet
    ELSE Done(result) /\ UNCHANGED locals

\* set_mesh_material_color(blueprint_name, component_name, color) is called
SetMeshMaterialColor(color, ok) ==
    ToolCall("set_mesh_material_color", [color |-> color], ColorFrame("tool", color),
             ok, "color_base")

\* the color is no list of four values, or one of them cannot be clamped
ColorInvalid ==
    /\ pc = "color_base"
    /\ ~(FourList(locals.color) /\ Clampable(locals.color))
    /\ ColorEnd(IF ~FourList(locals.color)
                THEN FailDict("Invalid color format. Must be a list of 4 float values [R, G, B, A].")
                ELSE FailDict("'>' not supported between instances of 'str' and 'float'"))
    /\ NoCall
    /\ UNCHANGED <<tool, args, specOnly>>

\* "Set BaseColor parameter first"
ColorBase(response_base) ==
    /\ pc = "color_base"
    /\ FourList(locals.color) /\ Clampable(locals.color)
    /\ Call("set_mesh_material_color", <<"BaseColor">>, response_base)
    /\ locals' = [locals EXCEPT !.response_base = response_base]
    /\ pc' = "color_second"
    /\ UNCHANGED <<tool, args, toolRet, specOnly>>

\* "Set Color parameter second", and the return
ColorSecond(response_color) ==
    /\ pc = "color_second"
    /\ Call("set_mesh_material_color", <<"Color">>, response_color)
    /\ ColorEnd(ColorResult(locals.response_base, response_color))
    /\ UNCHANGED <<tool, args, specOnly>>

\* the commands of the tools that spawn_physics_blueprint_actor calls one
\* after the other before the color
PhysicsStages ==
    <<"create_blueprint", "add_component_to_blueprint", "set_static_mesh_properties",
      "set_physics_properties">>

\* the color handed to set_mesh_material_color: alpha is added to three
\* values, a list of any other length is dropped
NormalColor(color) ==
    IF color = PyNone THEN PyNone
    ELSE IF Len(color.v) = 3 THEN JArr(Append(color.v, JNum(<<"1">>)))
    ELSE IF Len(color.v) # 4 THEN PyNone
    ELSE color

\* the tool of this stage has returned; its result is not looked at
PhysicsAdvance ==
    CASE locals.stage \in {PhysicsStages[k] : k \in 1..3} ->
            /\ locals' = [locals EXCEPT !.stage =
                            PhysicsStages[1 + CHOOSE k \in 1..3 : PhysicsStages[k] = locals.stage]]
            /\ pc' = "physics_guc" /\ UNCHANGED toolRet
      [] locals.stage = "set_physics_properties" ->
            IF NormalColor(args.color) = PyNone
            THEN /\ locals' = [locals EXCEPT !.stage = "compile_blueprint"]
                 /\ pc' = "physics_guc" /\ UNCHANGED toolRet
            ELSE /\ locals' = [locals EXCEPT !.stage = "set_mesh_material_color",
                                             !.color = NormalColor(args.color)]
                 /\ pc' = "color_guc" /\ UNCHANGED toolRet
      [] locals.stage = "compile_blueprint" ->
            pc' = "physics_stray" /\ UNCHANGED <<locals, toolRet>>
      [] locals.stage = "set_actor_transform" ->
            Done(locals.result) /\ UNCHANGED locals

\* spawn_physics_blueprint_actor(name, color=color) is called; it begins
\* with create_blueprint
SpawnPhysicsBlueprintActor(color) ==
    /\ pc = "idle"
    /\ tool' = "spawn_physics_blueprint_actor" /\ args' = [color |-> color]
    /\ locals' = ColorFrame("create_blueprint", PyNone)
    /\ log' = <<>> /\ toolRet' = Unset
    /\ pc' = "physics_guc"
    /\ UNCHANGED <<connVars, unused, guc, specOnly>>

\* the tool of this stage (create_blueprint ... compile_blueprint,
\* set_actor_transform) calls get_unreal_connection; without a handle it
\* returns a failure
PhysicsToolConnection(ok) ==
    /\ pc = "physics_guc"
    /\ GetUnrealConnection(ok)
    /\ IF guc'.returned
       THEN pc' = "physics_send" /\ UNCHANGED <<locals, toolRet>>
       ELSE PhysicsAdvance
    /\ UNCHANGED <<tool, args, log, specOnly>>

\* the tool of this stage sends its command and returns
PhysicsToolSend(response) ==
    /\ pc = "physics_send"
    /\ Call(locals.stage, <<>>, response)
    /\ PhysicsAdvance
    /\ UNCHANGED <<tool, args, specOnly>>

\* set_mesh_material_color, called by spawn_physics_blueprint_actor, calls
\* get_unreal_connection
ColorConnection(ok) ==
    /\ pc = "color_guc"
    /\ GetUnrealConnection(ok)
    /\ IF guc'.returned
       THEN pc' = "color_base" /\ UNCHANGED <<locals, toolRet>>
       ELSE ColorEnd(FailDict("Failed to connect to Unreal Engine"))
    /\ UNCHANGED <<tool, args, log, specOnly>>

\* "result = spawn_blueprint_actor(bp_name, name, location)": the helper
\* (helpers/actor_utilities.py) takes the connection first and is given a
\* name in its place, so it sends nothing; it either raises, which ends the
\* tool in its except branch, or returns a failure that the next statement
\* overwrites
PhysicsSpawnWithoutConnection(raises) ==
    /\ pc = "physics_stray"
    /\ IF raises
       THEN Done(FailDict("spawn_blueprint_actor() missing 1 required positional argument"))
       ELSE pc' = "physics_spawn_guc" /\ UNCHANGED toolRet
    /\ NoCall
    /\ UNCHANGED <<tool, args, locals, specOnly>>

\* "unreal = get_unreal_connection()"; with None for a connection the
\* helper raises or returns a failure, and either way the tool returns one
PhysicsSpawnConnection(ok) ==
    /\ pc = "physics_spawn_guc"
    /\ GetUnrealConnection(ok)
    /\ IF guc'.returned
       THEN pc' = "physics_spawn" /\ UNCHANGED toolRet
       ELSE Done(FailDict("'NoneType' object has no attribute 'send_command'"))
    /\ UNCHANGED <<tool, args, locals, log, specOnly>>

\* "result = spawn_blueprint_actor(unreal, bp_name, name, location)": the
\* helper sends spawn_blueprint_actor and returns what send_command returned
PhysicsSpawn(result) ==
    /\ pc = "physics_spawn"
    /\ Call("spawn_blueprint_actor", <<>>, result)
    /\ IF result = PyNone
       THEN Done(FailDict("'NoneType' object has no attribute 'get'")) /\ UNCHANGED locals
       ELSE IF Truthy(DictGet(result, S_success, PyFalse))
            THEN /\ locals' = [locals EXCEPT !.stage = "set_actor_transform", !.result = result]
                 /\ pc' = "physics_guc" /\ UNCHANGED toolRet
            ELSE Done(result) /\ UNCHANGED locals
    /\ UNCHANGED <<tool, args, specOnly>>

\* inputs
Rgba == JArr(<<JNum(<<"1">>), JNum(<<"0">>), JNum(<<"0">>), JNum(<<"1">>)>>)
Rgb == JArr(<<JNum(<<"1">>), JNum(<<"0">>), JNum(<<"0">>)>>)
Colors == {Rgba, Rgb, JArr(<<JNum(<<"1">>)>>),
           JArr(<<JStr(<<"r">>), JStr(<<"g">>), JStr(<<"b">>), JStr(<<"a">>)>>),
           JStr(<<"r", "e", "d">>)}
PhysicsColors == {PyNone, Rgba, Rgb, JArr(<<JNum(<<"1">>)>>)}
\* the results of the tools whose result spawn_physics_blueprint_actor drops
Dropped == {PyNone, R_success}
SpawnResults ==
    Responses \cup {JObj(<< <<S_status, JStr(S_success)>>, <<S_success, PyTrue>> >>)}

ColorReturned == pc = "idle" /\ tool = "set_mesh_material_color"

\* the two commands, and success exactly when one of them succeeded
TwoColorCommands ==
    /\ Len(log) = 2
    /\ log[1].cmd = "set_mesh_material_color" /\ log[1].arg = <<"BaseColor">>
    /\ log[2].cmd = "set_mesh_material_color" /\ log[2].arg = <<"Color">>
    /\ (DictGet(toolRet, S_success, PyNone) = PyTrue)
          <=> (IsSuccess(log[1].ret) \/ IsSuccess(log[2].ret))
    /\ DictGet(toolRet, S_success, PyNone) \in {PyTrue, PyFalse}

\* C17 as claimed: for a valid 4-component color set_mesh_material_color
\* always sends exactly two commands, BaseColor then Color, and returns
\* success True iff one of the two responses has status "success"
C17_Original ==
    (ColorReturned /\ FourList(args.color) /\ Clampable(args.color)) => TwoColorCommands

\* C17: the same, for a call that got a connection handle; a call that got
\* none sends nothing and returns a failure
C17_TwoCommands ==
    (ColorReturned /\ FourList(args.color) /\ Clampable(args.color)) =>
        IF guc.returned THEN TwoColorCommands
        ELSE log = <<>> /\ toolRet = FailDict("Failed to connect to Unreal Engine")

\* the first command failed, the second was sent all the same and succeeded
C17_Witness ==
    /\ ColorReturned /\ args.color = Rgba
    /\ Len(log) = 2 /\ log[1].ret = PyNone /\ log[2].ret = R_success
    /\ DictGet(toolRet, S_success, PyNone) = PyTrue

\* the commands of the call, in order
Cmds == [i \in 1..Len(log) |-> log[i].cmd]

\* the order the commands of spawn_physics_blueprint_actor are to come in
PhysicsOrder ==
    PhysicsStages \o <<"set_mesh_material_color", "set_mesh_material_color",
                       "compile_blueprint", "spawn_blueprint_actor", "set_actor_transform">>

\* s is t with some entries left out
RECURSIVE IsSubSeq(_, _)
IsSubSeq(s, t) ==
    IF s = <<>> THEN TRUE
    ELSE IF t = <<>> THEN FALSE
    ELSE IF Head(s) = Head(t) THEN IsSubSeq(Tail(s), Tail(t))
    ELSE IsSubSeq(s, Tail(t))

S_total_actors == <<"t", "o", "t", "a", "l", "_", "a", "c", "t", "o", "r", "s">>

\* "Determine status"
SceneStatus(total_actors, max_actors, warn_threshold) ==
    IF total_actors >= max_actors THEN "critical"
    ELSE IF total_actors >= warn_threshold THEN "warning"
    ELSE "ok"

\* the result of a validation that completed; the prefixes and the
\* recommendations, which only read the status, are left out
SceneResult(total_actors, status) ==
    JObj(<< <<S_success, PyTrue>>,
            <<S_total_actors, PyInt(total_actors)>>,
            <<S_status, Text(status)>> >>)

\* validate_scene_performance(max_actors, warn_threshold) is called
ValidateScenePerformance(max_actors, warn_threshold, ok) ==
    ToolCall("validate_scene_performance",
             [max_actors |-> max_actors, warn_threshold |-> warn_threshold], NoLocals,
             ok, "validate_get")

\* the get_actors_in_level command, the count and the status
ValidateSceneStatus(response) ==
    /\ pc = "validate_get"
    /\ Call("get_actors_in_level", <<>>, response)
    /\ IF ~Truthy(response) \/ ~Truthy(DictGet(response, S_success, PyNone))
       THEN Done(FailDict("Failed to get actors from level"))
       ELSE LET total_actors == Len(DictGet(response, S_actors, JArr(<<>>)).v)
            IN  Done(SceneResult(total_actors,
                                 SceneStatus(total_actors, args.max_actors, args.warn_threshold)))
    /\ UNCHANGED <<tool, args, locals, specOnly>>

\* inputs: levels of up to MaxActors actors, thresholds around them
Thresholds == 0..(MaxActors + 1)
LevelResponses ==
    {PyNone, R_success}
        \cup {JObj(<< <<S_success, PyTrue>>,
                      <<S_actors, JArr([k \in 1..n |-> JObj(<< <<S_name, JStr(<<"A">>)>> >>)])>> >>) :
                n \in 0..MaxActors}

SceneValidated ==
    /\ pc = "idle" /\ tool = "validate_scene_performance"
    /\ DictGet(toolRet, S_success, PyNone) = PyTrue

\* C19 as claimed: status is "critical" exactly when the actor count exceeds
\* max_actors, "warning" exactly when it has reached warn_threshold without
\* being critical, and "ok" otherwise
C19_StatusByThresholds ==
    SceneValidated =>
        LET total_actors == DictGet(toolRet, S_total_actors, PyNone).v[1]
            status == DictGet(toolRet, S_status, PyNone)
            critical == total_actors > args.max_actors
            warning == total_actors >= args.warn_threshold /\ ~critical
        IN  /\ (status = Text("critical")) <=> critical
            /\ (status = Text("warning")) <=> warning
            /\ (status = Text("ok")) <=> (~critical /\ ~warning)

(***************************************************************************)
(* helpers/blueprint_graph: three of the helpers, one for each way they    *)
(* treat what send_command gives them                                      *)
(***************************************************************************)
\* the call unreal_connection.send_command(...) raised
Raised == [t |-> "raised", v |-> <<>>]

\* {"success": False, "error": str(e)}
HelperError(msg) == JObj(<< <<S_success, PyFalse>>, <<S_error, Text(msg)>> >>)

\* a helper is called with the connection it is to use
HelperCall(name) ==
    /\ pc = "idle"
    /\ tool' = name /\ args' = NoArgs /\ locals' = NoLocals /\ log' = <<>>
    /\ toolRet' = Unset
    /\ pc' = "helper_send"
    /\ UNCHANGED <<connVars, unused, guc, specOnly>>

\* the send_command call of the helper returns response, or raises (Raised)
HelperSend(cmd, response) ==
    IF response = Raised
    THEN /\ log' = Append(log, [cmd |-> cmd, arg |-> <<>>, ret |-> Raised])
         /\ UNCHANGED <<connVars, unused, guc>>
    ELSE Call(cmd, <<>>, response)

\* node_manager.add_node: response.get is called inside the try
AddNode == HelperCall("add_node")

AddNodeReturn(response) ==
    /\ pc = "helper_send" /\ tool = "add_node"
    /\ HelperSend("add_blueprint_node", response)
    /\ Done(IF response = Raised THEN HelperError("send_command raised")
            ELSE IF response = PyNone
                 THEN HelperError("'NoneType' object has no attribute 'get'")
                 ELSE response)
    /\ UNCHANGED <<tool, args, locals, specOnly>>

\* function_manager.create_function_handler: "return response" inside the try
CreateFunctionHandler == HelperCall("create_function_handler")

CreateFunctionHandlerReturn(response) ==
    /\ pc = "helper_send" /\ tool = "create_function_handler"
    /\ HelperSend("create_function", response)
    /\ Done(IF response = Raised THEN HelperError("send_command raised") ELSE response)
    /\ UNCHANGED <<tool, args, locals, specOnly>>

\* graph_inspector.read_blueprint_content_helper: no try at all
ReadBlueprintContentHelper == HelperCall("read_blueprint_content_helper")

ReadBlueprintContentHelperReturn(response) ==
    /\ pc = "helper_send" /\ tool = "read_blueprint_content_helper"
    /\ HelperSend("read_blueprint_content", response)
    /\ Done(response)
    /\ UNCHANGED <<tool, args, locals, specOnly>>

\* inputs
HelperOutcomes ==
    {Raised, PyNone, ErrorResult("Timeout receiving Unreal response"),
     JObj(<< <<S_success, PyTrue>> >>)}

Helpers == {"add_node", "create_function_handler", "read_blueprint_content_helper"}

\* the helper has returned and its command was not delivered
Undelivered ==
    /\ pc = "idle" /\ tool \in Helpers
    /\ log # <<>> /\ log[1].ret \in {PyNone, Raised}

\* C20 as claimed: when send_command returns None or raises, a
\* blueprint_graph helper returns a dictionary with success False and an
\* error text, never None and never an exception
C20_HelperFailure ==
    Undelivered =>
        /\ toolRet.t = "obj"
        /\ DictGet(toolRet, S_success, PyNone) = PyFalse
        /\ DictGet(toolRet, S_error, PyNone).t = "str"

(***************************************************************************)
(* The tools, taken together                                               *)
(***************************************************************************)
ToolNext ==
    \/ \E p \in Prefixes, confirm \in BOOLEAN, dry_run \in BOOLEAN, ok \in BOOLEAN :
          ClearSceneByPrefix(p, confirm, dry_run, ok)
    \/ \E r \in FindResponses : ClearSceneFind(r)
    \/ \E r \in Responses : ClearSceneDelete(r)
    \/ ClearSceneReturn
    \/ \E l \in BatchLists, n \in ChunkSizes, ok \in BOOLEAN : BatchSpawnActors(l, n, ok)
    \/ BatchChunk
    \/ \E r \in SpawnResponses : BatchActor(r)
    \/ BatchActorRaises
    \/ BatchChunkEnd
    \/ BatchReturn
    \/ \E s \in SourceNames, n \in 0..MaxActors, p \in ClonePatterns, ok \in BOOLEAN :
          CloneActorArray(s, n, p, ok)
    \/ \E r \in CloneFindResponses : CloneFind(r)
    \/ \E ok \in BOOLEAN : CloneBatch(ok)
    \/ \E c \in Colors, ok \in BOOLEAN : SetMeshMaterialColor(c, ok)
    \/ ColorInvalid
    \/ \E r \in Responses : ColorBase(r)
    \/ \E r \in Responses : ColorSecond(r)
    \/ \E c \in PhysicsColors : SpawnPhysicsBlueprintActor(c)
    \/ \E ok \in BOOLEAN : PhysicsToolConnection(ok)
    \/ \E r \in Dropped : PhysicsToolSend(r)
    \/ \E ok \in BOOLEAN : ColorConnection(ok)
    \/ \E raises \in BOOLEAN : PhysicsSpawnWithoutConnection(raises)
    \/ \E ok \in BOOLEAN : PhysicsSpawnConnection(ok)
    \/ \E r \in SpawnResults : PhysicsSpawn(r)
    \/ \E m \in Thresholds, w \in Thresholds, ok \in BOOLEAN : ValidateScenePerformance(m, w, ok)
    \/ \E r \in LevelResponses : ValidateSceneStatus(r)
    \/ AddNode
    \/ \E o \in HelperOutcomes : AddNodeReturn(o)
    \/ CreateFunctionHandler
    \/ \E o \in HelperOutcomes : CreateFunctionHandlerReturn(o)
    \/ ReadBlueprintContentHelper
    \/ \E o \in HelperOutcomes : ReadBlueprintContentHelperReturn(o)

ToolSpec == ToolInit /\ [][ToolNext]_vars

(***************************************************************************)
(* organize_actors_by_height                                               *)
(***************************************************************************)
S_location == <<"l", "o", "c", "a", "t", "i", "o", "n">>
S_layers == <<"l", "a", "y", "e", "r", "s">>
S_layer == <<"l", "a", "y", "e", "r">>
S_actor_count == <<"a", "c", "t", "o", "r", "_", "c", "o", "u", "n", "t">>

\* the filter loop over response["actors"]: the dictionaries whose name
\* passes the prefix and whose location has three entries or more, as
\* {"name": ..., "z": location[2]}, in order
RECURSIVE ActorsWithLocation(_, _)
ActorsWithLocation(all_actors, prefix) ==
    IF all_actors = <<>> THEN <<>>
    ELSE LET actor == Head(all_actors)
             rest == ActorsWithLocation(Tail(all_actors), prefix)
         IN  IF actor.t # "obj" THEN rest
             ELSE LET actor_name == DictGet(actor, S_name, JStr(<<>>))
                      location == DictGet(actor, S_location, JArr(<<>>))
                  IN  IF prefix # <<>> /\ ~StartsWith(actor_name.v, prefix) THEN rest
                      ELSE IF Truthy(location) /\ Len(location.v) >= 3
                           THEN <<[name |-> actor_name.v, z |-> location.v[3].v[1]]>> \o rest
                           ELSE rest

\* min(z_coords), max(z_coords)
MinZ(actors) ==
    CHOOSE z \in {actors[i].z : i \in 1..Len(actors)} :
        \A i \in 1..Len(actors) : z <= actors[i].z
MaxZ(actors) ==
    CHOOSE z \in {actors[i].z : i \in 1..Len(actors)} :
        \A i \in 1..Len(actors) : z >= actors[i].z

\* variant of LayerIndex: the index is not held below the number of layers
LayerIndex_unclamped(z, min_z, max_z, layers) ==
    ((z - min_z) * layers) \div (max_z - min_z)

\* min(int((z - min_z) / layer_height), layers - 1) with
\* layer_height = (max_z - min_z) / layers; for the whole-number heights and
\* the layer counts used here the two float divisions give the exact
\* quotient's integer part
LayerIndex(z, min_z, max_z, layers) ==
    Min(((z - min_z) * layers) \div (max_z - min_z), layers - 1)

\* one entry of result_layers; z_min and z_max, which no actor's placement
\* reads, are left out
HeightLayer(i, names) ==
    JObj(<< <<S_layer, PyInt(i)>>,
            <<S_actor_count, PyInt(Len(names))>>,
            <<S_actor_names, NameList(names)>> >>)

\* the names appended to layer_data[i]["actors"]
LayerActors(actors, i, layers) ==
    LET in_layer == SelectSeq(actors,
                        LAMBDA a : LayerIndex(a.z, MinZ(actors), MaxZ(actors), layers) = i)
    IN  [k \in 1..Len(in_layer) |-> in_layer[k].name]

HeightResult(total_actors, result_layers) ==
    JObj(<< <<S_success, PyTrue>>,
            <<S_total_actors, PyInt(total_actors)>>,
            <<S_layers, JArr(result_layers)>> >>)

\* what the tool returns once the actors have been filtered: no actors, all
\* at one height, or the layers; layer_data[layer_index] raises when the
\* index is not below the number of layers (it is never negative, z being
\* at least min_z)
OrganizeResult(actors, layers) ==
    IF actors = <<>> THEN HeightResult(0, <<>>)
    ELSE IF MinZ(actors) = MaxZ(actors)
    THEN HeightResult(Len(actors),
                      <<HeightLayer(0, [k \in 1..Len(actors) |-> actors[k].name])>>)
    ELSE IF \E k \in 1..Len(actors) :
                LayerIndex(actors[k].z, MinZ(actors), MaxZ(actors), layers) >= layers
    THEN FailDict("list index out of range")
    ELSE HeightResult(Len(actors),
                      [j \in 1..layers |-> HeightLayer(j - 1, LayerActors(actors, j - 1, layers))])

\* organize_actors_by_height(prefix, layers) is called
OrganizeActorsByHeight(prefix, layers, ok) ==
    ToolCall("organize_actors_by_height", [prefix |-> prefix, layers |-> layers], NoLocals,
             ok, "organize_get")

\* the get_actors_in_level command, the filter and the layers
OrganizeLayers(response) ==
    /\ pc = "organize_get"
    /\ Call("get_actors_in_level", <<>>, response)
    /\ IF ~Truthy(response)
       THEN Done(FailDict("Failed to get actors: No response"))
       ELSE IF DictGet(response, S_status, PyNone) # Text("success")
       THEN Done(FailDict("Failed to get actors: Unknown error"))
       ELSE Done(OrganizeResult(
                    ActorsWithLocation(DictGet(response, S_actors, JArr(<<>>)).v, args.prefix),
                    args.layers))
    /\ UNCHANGED <<tool, args, locals, specOnly>>

\* inputs: levels of up to MaxActors + 1 entries, which are no dictionary,
\* have no location, or stand at a whole-number height
Heights == 0..MaxActors
LayerCounts == 1..(MaxActors + 1)
Located(nm, z) ==
    JObj(<< <<S_name, JStr(nm)>>,
            <<S_location, JArr(<<PyInt(0), PyInt(0), PyInt(z)>>)>> >>)
HeightEntries ==
    {JStr(<<"X">>), JObj(<< <<S_name, JStr(<<"W", "1">>)>> >>)}
        \cup {Located(<<"W", "1">>, z) : z \in Heights} \cup {Located(<<"X">>, 0)}
HeightResponses ==
    {PyNone, JObj(<< <<S_status, Text("error")>> >>), JObj(<< <<S_status, Text("success")>> >>)}
        \cup {JObj(<< <<S_status, Text("success")>>, <<S_actors, JArr(l)>> >>) :
                l \in UNION {[1..n -> HeightEntries] : n \in 1..(MaxActors + 1)}}

HeightNext ==
    \/ \E p \in Prefixes, n \in LayerCounts, ok \in BOOLEAN : OrganizeActorsByHeight(p, n, ok)
    \/ \E r \in HeightResponses : OrganizeLayers(r)

HeightSpec == ToolInit /\ [][HeightNext]_vars

\* the tool has returned after a get_actors_in_level that was answered
\* with success
Organized ==
    /\ pc = "idle" /\ tool = "organize_actors_by_height"
    /\ Len(log) = 1
    /\ Truthy(log[1].ret)
    /\ DictGet(log[1].ret, S_status, PyNone) = Text("success")

\* the actors that have a location and pass the prefix filter
Placed == ActorsWithLocation(DictGet(log[1].ret, S_actors, JArr(<<>>)).v, args.prefix)

RECURSIVE CountSum(_)
CountSum(result_layers) ==
    IF result_layers = <<>> THEN 0
    ELSE DictGet(Head(result_layers), S_actor_count, PyNone).v[1] + CountSum(Tail(result_layers))

\* C21: for layers >= 1 and actors not all at the same height, the tool
\* succeeds and there is a placement of every actor that has a location and
\* passes the prefix filter in one layer each, with index in 0..layers-1,
\* such that the reported layers are these placements, the actor_count
\* values sum to total_actors, the index never decreases as Z increases and
\* an actor at the maximum Z is in the last layer
C21_LayersPartition ==
    (/\ Organized
     /\ args.layers >= 1
     /\ \E a, b \in 1..Len(Placed) : Placed[a].z # Placed[b].z)
    => /\ DictGet(toolRet, S_success, PyNone) = PyTrue
       /\ LET result_layers == DictGet(toolRet, S_layers, JArr(<<>>)).v
              total_actors == DictGet(toolRet, S_total_actors, PyNone).v[1]
              placed == Placed
              max_z == MaxZ(placed)
          IN  /\ Len(result_layers) = args.layers
              /\ total_actors = Len(placed)
              /\ CountSum(result_layers) = total_actors
              /\ \E layer \in [1..Len(placed) -> 0..(args.layers - 1)] :
                    /\ \A a, b \in 1..Len(placed) :
                          placed[a].z < placed[b].z => layer[a] <= layer[b]
                    /\ \A a \in 1..Len(placed) :
                          placed[a].z = max_z => layer[a] = args.layers - 1
                    /\ \A j \in 1..args.layers :
                          LET members == SelectSeq([k \in 1..Len(placed) |-> k],
                                                   LAMBDA k : layer[k] = j - 1)
                          IN  result_layers[j] =
                                  HeightLayer(j - 1, [m \in 1..Len(members) |->
                                                         placed[members[m]].name])

\* three actors at three heights are placed in three layers, one each
C21_Witness ==
    /\ Organized
    /\ args.layers = 3
    /\ Len(Placed) = 3
    /\ DictGet(toolRet, S_success, PyNone) = PyTrue
    /\ \A j \in 1..3 :
          DictGet(DictGet(toolRet, S_layers, JArr(<<>>)).v[j], S_actor_count, PyNone) = PyInt(1)

(***************************************************************************)
(* The carver of create_maze, run to its end                               *)
(***************************************************************************)
\* one step of carve_path: a round of a for loop, or a return
CarveStep == (\E d \in Directions : CarvePath(d)) \/ CarvePathReturn

\* carve_path(0, 0) has returned; entrance and exit are not yet opened
CarverReturned == pc = "carve" /\ locals.stack = <<>>

\* the grid positions of the cells, and of the walls between two adjacent cells
Cells(rows, cols) == {CellPos(r, c) : r \in 0..(rows - 1), c \in 0..(cols - 1)}
InnerWalls(rows, cols) ==
    {<<2 * r + 1, 2 * c + 2>> : r \in 0..(rows - 1), c \in 0..(cols - 2)}
        \cup {<<2 * r + 2, 2 * c + 1>> : r \in 0..(rows - 2), c \in 0..(cols - 1)}

\* every cell is open, rows*cols - 1 walls between cells are open, nothing
\* else is, and every cell is reached from the first
CarvedTree ==
    LET cells == Cells(args.rows, args.cols)
        walls == InnerWalls(args.rows, args.cols)
    IN  /\ cells \subseteq Open(locals.maze)
        /\ Cardinality(walls \cap Open(locals.maze)) = args.rows * args.cols - 1
        /\ Open(locals.maze) \subseteq cells \cup walls
        /\ cells \subseteq Reachable(locals.maze, {CellPos(0, 0)})

\* what is left for the carver to do: the cells still closed, the rounds
\* the for loops on the stack have still to make, and the returns due
RECURSIVE RoundsLeft(_)
RoundsLeft(stack) ==
    IF stack = <<>> THEN 0
    ELSE Cardinality(Head(stack).directions) + RoundsLeft(Tail(stack))

CarveVariant ==
    6 * Cardinality(Cells(args.rows, args.cols) \ Open(locals.maze))
        + RoundsLeft(locals.stack) + Len(locals.stack)

\* C22: the carver terminates, whatever the shuffles: while it has not
\* returned it can take a step, and every step of it brings down a count
\* that is never negative; and when it has returned every cell is open and
\* exactly rows*cols - 1 walls between adjacent cells are, so that the open
\* cells form a tree
C22_CarverTerminatesWithTree ==
    /\ [](CarverReturned => CarvedTree)
    /\ [](pc = "carve" /\ ~CarverReturned => ENABLED CarveStep)
    /\ [][pc = "carve" /\ pc' = "carve" => CarveVariant' < CarveVariant]_vars

\* the carver has returned from a grid of two rows and two columns
C22_Witness ==
    /\ CarverReturned /\ args.rows = 2 /\ args.cols = 2
    /\ ~locals.maze[<<2, 1>>] /\ ~locals.maze[<<3, 2>>] /\ ~locals.maze[<<2, 3>>]

====
